---- MODULE Spec2Model ----
(***************************************************************************)
(* A model of qTox's Settings store (src/persistence/settings.cpp): the    *)
(* keyed collections (friends, friend requests, circles), the preference   *)
(* setters with their change notifications, and the save calls the         *)
(* handlers make.                                                          *)
(*                                                                         *)
(* Observable outputs of a handler are kept in two variables: `emitted',   *)
(* the signals the last handler emitted (in order), and `ret', the value   *)
(* the last handler returned.  Both hold pairs <<name, value>> so that two *)
(* values of different C++ types are never compared.                       *)
(***************************************************************************)
EXTENDS Integers, Sequences, FiniteSets, TLC

(***************************************************************************)
(* Bounds of the model.                                                    *)
(***************************************************************************)
\* longest circle list addCircle is allowed to build
MaxCircles == 3
\* most messages waiting in the settings thread's event queue
MaxQueue == 1
\* most friend fields that differ from a fresh entry's defaults
MaxFriendEdits == 2
\* most fields of the store that differ from the freshly constructed store, in
\* the setter scenario
MaxEdits == 1
\* SpecStore: fields and entries that differ from the fresh store
MaxStoreEdits == 1
\* SpecPersonal: personal fields and entries that differ from the fresh store
MaxPersonalEdits == 2
\* SpecQueue: most messages waiting in the settings thread's event queue
MaxPosted == 2
\* SpecProfile: fields and entries that differ from the fresh store
MaxProfileEdits == 1
\* SpecLife: most settings threads running at once
MaxWorkers == 2

(***************************************************************************)
(* Input domains.                                                          *)
(***************************************************************************)
\* public keys (ToxPk) callers use
Keys == {"pk1", "pk2"}
\* nospam parts that extend a public key to a full Tox ID
NoSpams == {"n1"}
\* request addresses and messages
ReqAddrs == {"A", "B"}
ReqMsgs == {"hi", "bye"}
\* circle names callers pass to addCircle / setCircleName ("" asks for a generated one)
CircleNames == {"", "X"}
\* the threads that call getInstance() and destroyInstance()
Callers == {"main", "core"}
\* the null pointer, for Settings::settings
NULL == 0
\* the profile Nexus::getProfile() returns: none, or a named one
NoProfile == "<null>"
Profiles == {"alice"}
\* a QDateTime: 0 is the null QDateTime(), the others are instants
NullTime == 0
Times == {0, 1}

VARIABLES
    friendLst,       \* QHash<QByteArray, friendProp>: public key -> entry
    friendRequests,  \* QList<Request>
    circleLst,       \* QList<circleProp>
    prefs,           \* the scalar preference fields, by member name
    widgetSettings,  \* QHash<QString, QByteArray>
    autorun,         \* the platform's autorun registration (Platform::getAutorun)
    platformExt,     \* whether the build defines QTOX_PLATFORM_EXT
    loaded,          \* Settings::loaded
    profile,         \* Nexus::getProfile(): NoProfile or the active profile's name
    queue,           \* queued invocations waiting for the settings thread
    files,           \* the file system: path -> content, for the files that exist
    emitted,         \* signals emitted by the last handler
    ret,             \* <<handler, value>> returned by the last handler
    currentThread,   \* QThread::currentThread() of the last handler, where the
                     \* specification observes it (SpecStore)
    settings,        \* Settings::settings: NULL or the instance it points to
    pc,              \* where each caller is inside getInstance()
    constructed,     \* instances constructed since the last destroyInstance()
    workers          \* settings threads started and not yet finished

vars == <<friendLst, friendRequests, circleLst, prefs, widgetSettings, autorun,
          platformExt, loaded, profile, queue, files, emitted, ret, currentThread,
          settings, pc, constructed, workers>>

\* the singleton and its thread: what getInstance and destroyInstance change
lifecycle == <<settings, pc, constructed, workers>>

Sig(name, val) == <<name, val>>
Ret(op, val) == <<op, val>>
Void == "void"

Range(s) == {s[i] : i \in 1..Len(s)}

(***************************************************************************)
(* ToxId / ToxPk (src/core): an address is the public key alone (the       *)
(* string ToxPk::toString() gives) or the key followed by a nospam part.   *)
(***************************************************************************)
\* ToxPk::toString(): the canonical string of a public key
PkToString(k) == <<k, "">>
\* every address string that carries public key k
AddrsOf(k) == {PkToString(k)} \cup {<<k, n>> : n \in NoSpams}
Addresses == UNION {AddrsOf(k) : k \in Keys}
\* ToxId(addr).getPublicKey()
ToxIdPublicKey(addr) == addr[1]

(***************************************************************************)
(* friendProp (settings.h): a fresh entry for an address.                  *)
(***************************************************************************)
NewFriendProp(addr) ==
    [addr |-> addr, alias |-> "", note |-> "", autoAcceptDir |-> "",
     autoAcceptCall |-> 0, autoGroupInvite |-> FALSE, circleID |-> -1,
     activity |-> NullTime]

FriendFields == {"addr", "alias", "note", "autoAcceptDir", "autoAcceptCall",
                 "autoGroupInvite", "circleID", "activity"}

\* friend fields that differ from the entry getOrInsertFriendPropRef would create
FriendEdits(fl) ==
    {<<k, f>> \in (DOMAIN fl) \X FriendFields : fl[k][f] # NewFriendProp(PkToString(k))[f]}

FriendsBounded(fl) == Cardinality(FriendEdits(fl)) <= MaxFriendEdits

(***************************************************************************)
(* Paths and files.                                                        *)
(***************************************************************************)
globalSettingsFile == "qtox.ini"
\* qApp->applicationDirPath() and the platform's configuration directory
AppDir == "app/"
ConfigDir == "config/"

\* Settings::getSettingsDirPath
getSettingsDirPath(p) == IF p.makeToxPortable THEN AppDir ELSE ConfigDir

GlobalPath(p) == <<getSettingsDirPath(p), globalSettingsFile>>
PersonalPath(p, name) == <<getSettingsDirPath(p), name, ".ini">>

FileExists(fs, path) == path \in DOMAIN fs
WriteFile(fs, path, content) ==
    [q \in (DOMAIN fs) \cup {path} |-> IF q = path THEN content ELSE fs[q]]
RemoveFile(fs, path) == [q \in (DOMAIN fs) \ {path} |-> fs[q]]

(***************************************************************************)
(* The preference fields.  DefaultPrefs gives each field the value the     *)
(* loaders assign when the file has no entry for it (loadGlobal and        *)
(* loadPersonal); opaque Qt values (paths, fonts, rectangles, byte arrays) *)
(* are strings.  toxmeInfo is a sequence of characters, because            *)
(* setToxmeInfo splits it.                                                 *)
(***************************************************************************)
\* QCryptographicHash::hash(name.toUtf8(), QCryptographicHash::Md5): the 16
\* bytes of the digest, for the names of the model
Md5(name) ==
    CASE name = "" ->
           <<212, 29, 140, 217, 143, 0, 178, 4, 233, 128, 9, 152, 236, 248, 66, 126>>
      [] name = "alice" ->
           <<99, 132, 226, 178, 24, 75, 203, 245, 142, 204, 241, 12, 167, 166, 86, 60>>
      [] name = "bob" ->
           <<159, 157, 81, 188, 112, 239, 33, 202, 92, 20, 243, 7, 152, 10, 41, 216>>

\* the byte order of the host: little-endian on the machines qTox is built for
HostLittleEndian == TRUE

\* dwords[i]: the uint32_t read from the digest's bytes 4i .. 4i+3 in the
\* host's byte order.  A uint32_t is kept as its four bytes, the most
\* significant first.
Dword(data, i, littleEndian) ==
    IF littleEndian
    THEN <<data[4 * i + 4], data[4 * i + 3], data[4 * i + 2], data[4 * i + 1]>>
    ELSE <<data[4 * i + 1], data[4 * i + 2], data[4 * i + 3], data[4 * i + 4]>>

\* a ^ b on naturals
RECURSIVE Xor(_, _)
Xor(a, b) ==
    IF a = 0 THEN b
    ELSE IF b = 0 THEN a
    ELSE ((a + b) % 2) + 2 * Xor(a \div 2, b \div 2)

\* a ^ b on uint32_t
Xor32(a, b) == [k \in 1..4 |-> Xor(a[k], b[k])]

\* a fold that leaves out the last word
makeProfileIdOn_ThreeWords(littleEndian, name) ==
    LET data == Md5(name)
    IN Xor32(Xor32(Dword(data, 0, littleEndian), Dword(data, 1, littleEndian)),
             Dword(data, 2, littleEndian))

\* Settings::makeProfileId on a host of the given byte order
makeProfileIdOn(littleEndian, name) ==
    LET data == Md5(name)
    IN Xor32(Xor32(Xor32(Dword(data, 0, littleEndian), Dword(data, 1, littleEndian)),
                   Dword(data, 2, littleEndian)),
             Dword(data, 3, littleEndian))

\* Settings::makeProfileId
makeProfileId(name) == makeProfileIdOn(HostLittleEndian, name)

DefaultPrefs ==
    [autoLogin |-> FALSE,
     translation |-> "en",
     showSystemTray |-> TRUE,
     autostartInTray |-> FALSE,
     closeToTray |-> FALSE,
     currentProfile |-> "",
     currentProfileId |-> makeProfileId(""),
     autoAwayTime |-> 10,
     checkUpdates |-> TRUE,
     notifySound |-> TRUE,
     notifyHide |-> FALSE,
     busySound |-> FALSE,
     autoSaveEnabled |-> FALSE,
     globalAutoAcceptDir |-> "home/",
     autoAcceptMaxSize |-> 20971520,
     stylePreference |-> 1,
     makeToxPortable |-> FALSE,
     enableIPv6 |-> TRUE,
     forceTCP |-> FALSE,
     enableLanDiscovery |-> TRUE,
     showWindow |-> TRUE,
     notify |-> TRUE,
     desktopNotify |-> TRUE,
     groupAlwaysNotify |-> TRUE,
     groupchatPosition |-> TRUE,
     separateWindow |-> FALSE,
     dontGroupWindows |-> FALSE,
     showIdenticons |-> TRUE,
     smileyPack |-> ":/smileys/emojione/emoticons.xml",
     emojiFontPointSize |-> 24,
     timestampFormat |-> "hh:mm:ss",
     dateFormat |-> "yyyy-MM-dd",
     minimizeOnClose |-> FALSE,
     minimizeToTray |-> FALSE,
     lightTrayIcon |-> FALSE,
     useEmoticons |-> TRUE,
     statusChangeNotificationEnabled |-> FALSE,
     spellCheckingEnabled |-> TRUE,
     themeColor |-> 0,
     style |-> "Fusion",
     nameColors |-> FALSE,
     chatMessageFont |-> "font:big",
     windowGeometry |-> "",
     windowState |-> "",
     splitterState |-> "",
     dialogGeometry |-> "",
     dialogSplitterState |-> "",
     dialogSettingsGeometry |-> "",
     inDev |-> "",
     audioInDevEnabled |-> TRUE,
     outDev |-> "",
     audioOutDevEnabled |-> TRUE,
     audioInGainDecibel |-> 0,
     audioThreshold |-> 0,
     outVolume |-> 100,
     enableTestSound |-> TRUE,
     audioBitrate |-> 64,
     enableBackend2 |-> FALSE,
     videoDev |-> "",
     camVideoRes |-> "",
     screenRegion |-> "",
     screenGrabbed |-> FALSE,
     camVideoFPS |-> 0,
     typingNotification |-> TRUE,
     enableLogging |-> TRUE,
     blackList |-> <<"">>,
     compactLayout |-> TRUE,
     sortingMode |-> 0,
     proxyType |-> 0,
     proxyAddr |-> "",
     proxyPort |-> 0,
     toxmeInfo |-> <<>>,
     toxmeBio |-> "",
     toxmePriv |-> FALSE,
     toxmePass |-> ""]

PrefFields == DOMAIN DefaultPrefs

\* the fields saveGlobal writes and loadGlobal reads
GlobalFields ==
    {"autoLogin", "translation", "showSystemTray", "autostartInTray", "closeToTray",
     "currentProfile", "autoAwayTime", "checkUpdates", "notifySound", "notifyHide",
     "busySound", "autoSaveEnabled", "autoAcceptMaxSize", "globalAutoAcceptDir",
     "stylePreference", "makeToxPortable", "enableIPv6", "forceTCP",
     "enableLanDiscovery", "showWindow", "notify", "desktopNotify",
     "groupAlwaysNotify", "separateWindow", "dontGroupWindows", "groupchatPosition",
     "showIdenticons", "smileyPack", "emojiFontPointSize", "timestampFormat",
     "dateFormat", "minimizeOnClose", "minimizeToTray", "lightTrayIcon",
     "useEmoticons", "themeColor", "style", "nameColors",
     "statusChangeNotificationEnabled", "spellCheckingEnabled", "chatMessageFont",
     "windowGeometry", "windowState", "splitterState", "dialogGeometry",
     "dialogSplitterState", "dialogSettingsGeometry", "inDev", "audioInDevEnabled",
     "outDev", "audioOutDevEnabled", "audioInGainDecibel", "audioThreshold",
     "outVolume", "enableTestSound", "audioBitrate", "enableBackend2", "videoDev",
     "camVideoRes", "camVideoFPS", "screenRegion", "screenGrabbed"}

\* the preference fields savePersonal writes and loadPersonal reads
PersonalFields ==
    {"compactLayout", "sortingMode", "proxyType", "proxyAddr", "proxyPort",
     "typingNotification", "enableLogging", "blackList", "toxmeInfo", "toxmeBio",
     "toxmePriv", "toxmePass"}

\* values callers pass, by C++ parameter type
BoolVals == BOOLEAN
StrVals == {"", "a"}
IntVals == {-1, 0, 5}
UIntVals == {0, 5}
\* AutoAcceptCallFlags: none, audio
CallFlags == {0, 1}
ListVals == {<<"">>, <<"a">>}
\* toxme info strings, as characters
InfoVals == {<<>>, <<"a">>, <<"n", "@", "s">>, <<"m", "@", "s">>,
             <<"a", "@", "b", "@", "c">>}
\* profile names, widget names
ProfileNames == {"", "alice", "bob"}
WidgetNames == {"splitter"}
TypeVals(type) ==
    CASE type = "bool" -> BoolVals
      [] type = "str" -> StrVals
      [] type = "int" -> IntVals
      [] type = "uint" -> UIntVals
      [] type = "list" -> ListVals

\* preference fields that differ from their load defaults
PrefEdits(p) == {f \in PrefFields : p[f] # DefaultPrefs[f]}

(***************************************************************************)
(* The setters of the form                                                 *)
(*     if (newValue != field) { field = newValue; emit signal(...); }      *)
(* one row per setter: the field it compares and stores, the signal it     *)
(* emits, and the field whose value the signal carries.                    *)
(* setAudioInGainDecibel and setAudioThreshold write the comparison as     *)
(* `v < field || v > field', which is `!=' on numbers; the values of the   *)
(* model are numbers (no NaN).  The row of setSpellCheckingEnabled is      *)
(* written out: its emit names another signal and another field.           *)
(***************************************************************************)
PS(setter, field, signal, type) ==
    [setter |-> setter, field |-> field, signal |-> signal, carries |-> field,
     type |-> type]

PlainSetters ==
    {PS("setEnableTestSound", "enableTestSound", "enableTestSoundChanged", "bool"),
     PS("setEnableIPv6", "enableIPv6", "enableIPv6Changed", "bool"),
     PS("setStyle", "style", "styleChanged", "str"),
     PS("setShowSystemTray", "showSystemTray", "showSystemTrayChanged", "bool"),
     PS("setUseEmoticons", "useEmoticons", "useEmoticonsChanged", "bool"),
     PS("setAutoSaveEnabled", "autoSaveEnabled", "autoSaveEnabledChanged", "bool"),
     PS("setAutostartInTray", "autostartInTray", "autostartInTrayChanged", "bool"),
     PS("setCloseToTray", "closeToTray", "closeToTrayChanged", "bool"),
     PS("setMinimizeToTray", "minimizeToTray", "minimizeToTrayChanged", "bool"),
     PS("setLightTrayIcon", "lightTrayIcon", "lightTrayIconChanged", "bool"),
     PS("setStatusChangeNotificationEnabled", "statusChangeNotificationEnabled",
        "statusChangeNotificationEnabledChanged", "bool"),
     [setter |-> "setSpellCheckingEnabled", field |-> "spellCheckingEnabled",
      signal |-> "statusChangeNotificationEnabledChanged",
      carries |-> "statusChangeNotificationEnabled", type |-> "bool"],
     PS("setNotifySound", "notifySound", "notifySoundChanged", "bool"),
     PS("setNotifyHide", "notifyHide", "notifyHideChanged", "bool"),
     PS("setBusySound", "busySound", "busySoundChanged", "bool"),
     PS("setGroupAlwaysNotify", "groupAlwaysNotify", "groupAlwaysNotifyChanged", "bool"),
     PS("setTranslation", "translation", "translationChanged", "str"),
     PS("setToxmeBio", "toxmeBio", "toxmeBioChanged", "str"),
     PS("setToxmePriv", "toxmePriv", "toxmePrivChanged", "bool"),
     PS("setForceTCP", "forceTCP", "forceTCPChanged", "bool"),
     PS("setEnableLanDiscovery", "enableLanDiscovery", "enableLanDiscoveryChanged", "bool"),
     PS("setProxyType", "proxyType", "proxyTypeChanged", "int"),
     PS("setProxyAddr", "proxyAddr", "proxyAddressChanged", "str"),
     PS("setProxyPort", "proxyPort", "proxyPortChanged", "uint"),
     PS("setEnableLogging", "enableLogging", "enableLoggingChanged", "bool"),
     PS("setGlobalAutoAcceptDir", "globalAutoAcceptDir", "globalAutoAcceptDirChanged", "str"),
     PS("setMaxAutoAcceptSize", "autoAcceptMaxSize", "autoAcceptMaxSizeChanged", "uint"),
     PS("setChatMessageFont", "chatMessageFont", "chatMessageFontChanged", "str"),
     PS("setSmileyPack", "smileyPack", "smileyPackChanged", "str"),
     PS("setEmojiFontPointSize", "emojiFontPointSize", "emojiFontPointSizeChanged", "int"),
     PS("setTimestampFormat", "timestampFormat", "timestampFormatChanged", "str"),
     PS("setDateFormat", "dateFormat", "dateFormatChanged", "str"),
     PS("setStylePreference", "stylePreference", "stylePreferenceChanged", "int"),
     PS("setWindowGeometry", "windowGeometry", "windowGeometryChanged", "str"),
     PS("setWindowState", "windowState", "windowStateChanged", "str"),
     PS("setCheckUpdates", "checkUpdates", "checkUpdatesChanged", "bool"),
     PS("setNotify", "notify", "notifyChanged", "bool"),
     PS("setShowWindow", "showWindow", "showWindowChanged", "bool"),
     PS("setDesktopNotify", "desktopNotify", "desktopNotifyChanged", "bool"),
     PS("setSplitterState", "splitterState", "splitterStateChanged", "str"),
     PS("setDialogGeometry", "dialogGeometry", "dialogGeometryChanged", "str"),
     PS("setDialogSplitterState", "dialogSplitterState", "dialogSplitterStateChanged", "str"),
     PS("setDialogSettingsGeometry", "dialogSettingsGeometry",
        "dialogSettingsGeometryChanged", "str"),
     PS("setMinimizeOnClose", "minimizeOnClose", "minimizeOnCloseChanged", "bool"),
     PS("setTypingNotification", "typingNotification", "typingNotificationChanged", "bool"),
     PS("setBlackList", "blackList", "blackListChanged", "list"),
     PS("setInDev", "inDev", "inDevChanged", "str"),
     PS("setAudioInDevEnabled", "audioInDevEnabled", "audioInDevEnabledChanged", "bool"),
     PS("setAudioInGainDecibel", "audioInGainDecibel", "audioInGainDecibelChanged", "int"),
     PS("setAudioThreshold", "audioThreshold", "audioThresholdChanged", "int"),
     PS("setVideoDev", "videoDev", "videoDevChanged", "str"),
     PS("setOutDev", "outDev", "outDevChanged", "str"),
     PS("setAudioOutDevEnabled", "audioOutDevEnabled", "audioOutDevEnabledChanged", "bool"),
     PS("setOutVolume", "outVolume", "outVolumeChanged", "int"),
     PS("setAudioBitrate", "audioBitrate", "audioBitrateChanged", "int"),
     PS("setEnableBackend2", "enableBackend2", "enableBackend2Changed", "bool"),
     PS("setScreenRegion", "screenRegion", "screenRegionChanged", "str"),
     PS("setScreenGrabbed", "screenGrabbed", "screenGrabbedChanged", "bool"),
     PS("setCamVideoRes", "camVideoRes", "camVideoResChanged", "str"),
     PS("setCamVideoFPS", "camVideoFPS", "camVideoFPSChanged", "uint"),
     PS("setCompactLayout", "compactLayout", "compactLayoutChanged", "bool"),
     PS("setFriendSortingMode", "sortingMode", "sortingModeChanged", "int"),
     PS("setSeparateWindow", "separateWindow", "separateWindowChanged", "bool"),
     PS("setDontGroupWindows", "dontGroupWindows", "dontGroupWindowsChanged", "bool"),
     PS("setGroupchatPosition", "groupchatPosition", "groupchatPositionChanged", "bool"),
     PS("setShowIdenticons", "showIdenticons", "showIdenticonsChanged", "bool"),
     PS("setThemeColor", "themeColor", "themeColorChanged", "int"),
     PS("setAutoLogin", "autoLogin", "autoLoginChanged", "bool"),
     PS("setEnableGroupChatsColor", "nameColors", "nameColorsChanged", "bool")}

\* the getter paired with a plain setter: `return field;'
getPlain(p, s) == p[s.field]

(***************************************************************************)
(* The preference setters, as functions of the fields: each gives the      *)
(* fields after the call (p) and the signals the call emits (e).           *)
(***************************************************************************)
Row(setter) == CHOOSE s \in PlainSetters : s.setter = setter
Vals(s) == TypeVals(s.type) \cup {DefaultPrefs[s.field]}

\* a plain setter that stores and emits without comparing
setPlain_NoCompare(p, s, v) ==
    LET q == [p EXCEPT ![s.field] = v]
    IN [p |-> q, e |-> <<Sig(s.signal, q[s.carries])>>]

\* a plain setter that compares and emits, and forgets to store
setPlain_NoStore(p, s, v) ==
    IF v # p[s.field] THEN [p |-> p, e |-> <<Sig(s.signal, v)>>] ELSE [p |-> p, e |-> <<>>]

\* if (newValue != field) { field = newValue; emit signal(carried); }
setPlain(p, s, v) ==
    IF v # p[s.field]
    THEN LET q == [p EXCEPT ![s.field] = v]
         IN [p |-> q, e |-> <<Sig(s.signal, q[s.carries])>>]
    ELSE [p |-> p, e |-> <<>>]

\* Settings::getAutoAwayTime
getAutoAwayTime(p) == p.autoAwayTime

\* setAutoAwayTime that stores a negative value as it is
setAutoAwayTime_NoDefault(p, newValue) ==
    IF newValue # p.autoAwayTime
    THEN [p |-> [p EXCEPT !.autoAwayTime = newValue],
          e |-> <<Sig("autoAwayTimeChanged", newValue)>>]
    ELSE [p |-> p, e |-> <<>>]

\* Settings::setAutoAwayTime: values < 0 default to 10 minutes
setAutoAwayTime(p, newValue) ==
    LET value == IF newValue < 0 THEN 10 ELSE newValue
    IN IF value # p.autoAwayTime
       THEN [p |-> [p EXCEPT !.autoAwayTime = value],
             e |-> <<Sig("autoAwayTimeChanged", value)>>]
       ELSE [p |-> p, e |-> <<>>]

\* info.split("@").size(): one more than the number of separators
SplitSize(info) == 1 + Cardinality({i \in 1..Len(info) : info[i] = "@"})

\* Settings::getToxmeInfo
getToxmeInfo(p) == p.toxmeInfo

\* setToxmeInfo without the test of the split's size
setToxmeInfo_NoValidation(p, info) ==
    IF info # p.toxmeInfo
    THEN [p |-> [p EXCEPT !.toxmeInfo = info], e |-> <<Sig("toxmeInfoChanged", info)>>]
    ELSE [p |-> p, e |-> <<>>]

\* Settings::setToxmeInfo: a string that is not two "@"-separated parts is ignored
setToxmeInfo(p, info) ==
    IF info # p.toxmeInfo /\ SplitSize(info) = 2
    THEN [p |-> [p EXCEPT !.toxmeInfo = info], e |-> <<Sig("toxmeInfoChanged", info)>>]
    ELSE [p |-> p, e |-> <<>>]

\* Settings::getToxmePass
getToxmePass(p) == p.toxmePass

\* Settings::setToxmePass: the signal does not carry the password
setToxmePass(p, pass) ==
    IF pass # p.toxmePass
    THEN [p |-> [p EXCEPT !.toxmePass = pass], e |-> <<Sig("toxmePassChanged", Void)>>]
    ELSE [p |-> p, e |-> <<>>]

\* Settings::getCurrentProfile, getCurrentProfileId
getCurrentProfile(p) == p.currentProfile
getCurrentProfileId(p) == p.currentProfileId

\* a setCurrentProfile that stores nothing
setCurrentProfile_Keep(p, name) == [p |-> p, e |-> <<>>]

\* Settings::setCurrentProfile
setCurrentProfile(p, name) ==
    IF name # p.currentProfile
    THEN LET q == [p EXCEPT !.currentProfile = name,
                            !.currentProfileId = makeProfileId(name)]
         IN [p |-> q, e |-> <<Sig("currentProfileIdChanged", q.currentProfileId)>>]
    ELSE [p |-> p, e |-> <<>>]

\* Settings::deleteToxme: four setter calls in a row
deleteToxme(p) ==
    LET a == setToxmeInfo(p, <<>>)
        b == setPlain(a.p, Row("setToxmeBio"), "")
        c == setPlain(b.p, Row("setToxmePriv"), FALSE)
        d == setToxmePass(c.p, "")
    IN [p |-> d.p, e |-> a.e \o b.e \o c.e \o d.e]

\* Settings::setToxme
setToxme(p, name, server, bio, priv, pass) ==
    LET a == setToxmeInfo(p, name \o <<"@">> \o server)
        b == setPlain(a.p, Row("setToxmeBio"), bio)
        c == setPlain(b.p, Row("setToxmePriv"), priv)
        d == IF pass # "" THEN setToxmePass(c.p, pass) ELSE [p |-> c.p, e |-> <<>>]
    IN [p |-> d.p, e |-> a.e \o b.e \o c.e \o d.e]

\* Settings::getMakeToxPortable
getMakeToxPortable(p) == p.makeToxPortable

\* Settings::getAutorun: the platform's registration, false without QTOX_PLATFORM_EXT
getAutorun(ext, registered) == IF ext THEN registered ELSE FALSE

\* Settings::setAutorun: the registration after the call and the signals
setAutorun(ext, registered, newValue) ==
    IF ext /\ newValue # registered
    THEN [autorun |-> newValue, e |-> <<Sig("autorunChanged", registered)>>]
    ELSE [autorun |-> registered, e |-> <<>>]

\* Settings::getWidgetData: the stored blob, or an empty QByteArray
getWidgetData(ws, uniqueName) == IF uniqueName \in DOMAIN ws THEN ws[uniqueName] ELSE ""

\* Settings::setWidgetData
setWidgetData(ws, uniqueName, data) ==
    IF uniqueName \notin DOMAIN ws \/ ws[uniqueName] # data
    THEN [ws |-> [n \in (DOMAIN ws) \cup {uniqueName} |->
                     IF n = uniqueName THEN data ELSE ws[n]],
          e |-> <<Sig("widgetDataChanged", uniqueName)>>]
    ELSE [ws |-> ws, e |-> <<>>]

(***************************************************************************)
(* Saving.  A save-family call made on another thread than the settings    *)
(* thread queues the call for the settings thread and returns.             *)
(***************************************************************************)
Threads == {"settings", "main"}
settingsThread == "settings"

\* QStringList::join('\n'): the text, as its lines (the empty text is one empty line)
JoinLines(l) == IF l = <<>> THEN <<"">> ELSE l

\* what saveGlobal writes after s.clear(): every global field and the widget blobs
GlobalContent(p, ws) == [prefs |-> [f \in GlobalFields |-> p[f]], widgets |-> ws]

\* one element of the "Friend" array; "activity" is written only with logging enabled
FriendRecord(p, frnd) ==
    [addr |-> frnd.addr, alias |-> frnd.alias, note |-> frnd.note,
     autoAcceptDir |-> frnd.autoAcceptDir, autoAcceptCall |-> frnd.autoAcceptCall,
     autoGroupInvite |-> frnd.autoGroupInvite, circle |-> frnd.circleID,
     activity |-> IF p.enableLogging THEN <<frnd.activity>> ELSE <<>>]

\* what savePersonal serializes; the friend array is in the hash's order, kept as a set
PersonalContent(p, fl, reqs, circles) ==
    [friends |-> {FriendRecord(p, fl[k]) : k \in DOMAIN fl},
     requests |-> reqs,
     circles |-> circles,
     prefs |-> [f \in PersonalFields |->
                  IF f = "blackList" THEN JoinLines(p[f]) ELSE p[f]]]

\* Settings::saveGlobal, the part run on the settings thread
saveGlobalNow(fs, ld, p, ws) ==
    IF ~ld THEN fs ELSE WriteFile(fs, GlobalPath(p), GlobalContent(p, ws))

\* savePersonal(QString, const ToxEncrypt*) without the test of the loaded flag
savePersonalNow_NoLoadedTest(fs, ld, p, fl, reqs, circles, name) ==
    WriteFile(fs, PersonalPath(p, name), PersonalContent(p, fl, reqs, circles))

\* Settings::savePersonal(QString, const ToxEncrypt*)
savePersonalNow(fs, ld, p, fl, reqs, circles, name) ==
    IF ~ld THEN fs
    ELSE WriteFile(fs, PersonalPath(p, name), PersonalContent(p, fl, reqs, circles))

\* whether a call made on thread t may run: a call that queues needs room in the queue
CanPost(t) == t = settingsThread \/ Len(queue) < MaxQueue

\* saveGlobal without the test of the calling thread: it saves where it is called
saveGlobal_NoThreadTest(t, q, fs, ld, p, ws) ==
    [queue |-> q, files |-> saveGlobalNow(fs, ld, p, ws)]

\* Settings::saveGlobal called on thread t with the fields p, ws: the queue and files after it
saveGlobal(t, q, fs, ld, p, ws) ==
    IF t # settingsThread
    THEN [queue |-> Append(q, <<"saveGlobal", NoProfile>>), files |-> fs]
    ELSE [queue |-> q, files |-> saveGlobalNow(fs, ld, p, ws)]

\* Settings::savePersonal(Profile*) called on thread t
savePersonalProfile(t, prof, q, fs, ld, p, fl, reqs, circles) ==
    IF prof = NoProfile THEN [queue |-> q, files |-> fs]
    ELSE IF t # settingsThread
    THEN [queue |-> Append(q, <<"savePersonal", prof>>), files |-> fs]
    ELSE [queue |-> q, files |-> savePersonalNow(fs, ld, p, fl, reqs, circles, prof)]

\* Settings::savePersonal(): saves the profile Nexus::getProfile() returns
savePersonal(t, q, fs, ld, p, fl, reqs, circles) ==
    savePersonalProfile(t, profile, q, fs, ld, p, fl, reqs, circles)

\* The settings thread's event loop runs the next queued call.  The call was
\* queued without a caller waiting for it: it returns to nobody, and a save
\* emits no signal.
ProcessQueued ==
    /\ queue # <<>>
    /\ LET msg == Head(queue)
           after == IF msg[1] = "saveGlobal"
                    THEN saveGlobal(settingsThread, Tail(queue), files, loaded, prefs,
                                    widgetSettings)
                    ELSE savePersonalProfile(settingsThread, msg[2], Tail(queue), files,
                                             loaded, prefs, friendLst, friendRequests,
                                             circleLst)
       IN /\ queue' = after.queue
          /\ files' = after.files
    /\ UNCHANGED <<friendLst, friendRequests, circleLst, prefs, widgetSettings, autorun,
                   platformExt, loaded, profile, emitted, ret,
                   currentThread, lifecycle>>

(***************************************************************************)
(* Friend requests.                                                        *)
(***************************************************************************)
HasRequest(reqs, a) == \E i \in 1..Len(reqs) : reqs[i].address = a

\* addFriendRequest without the search for an entry of the same address
AddFriendRequest_AlwaysAppend(a, m) ==
    /\ Len(friendRequests) < 3
    /\ friendRequests' =
           Append(friendRequests, [address |-> a, message |-> m, read |-> FALSE])
    /\ ret' = Ret("addFriendRequest", TRUE)
    /\ emitted' = <<>>
    /\ UNCHANGED <<friendLst, circleLst, prefs, widgetSettings, autorun, platformExt,
                   loaded, profile, queue, files,
                   currentThread, lifecycle>>

\* addFriendRequest reporting "inserted new" whatever it did
AddFriendRequest_ReturnsTrue(a, m) ==
    /\ IF HasRequest(friendRequests, a)
       THEN friendRequests' = friendRequests
       ELSE friendRequests' =
                Append(friendRequests, [address |-> a, message |-> m, read |-> FALSE])
    /\ ret' = Ret("addFriendRequest", TRUE)
    /\ emitted' = <<>>
    /\ UNCHANGED <<friendLst, circleLst, prefs, widgetSettings, autorun, platformExt,
                   loaded, profile, queue, files,
                   currentThread, lifecycle>>

\* Settings::addFriendRequest.  The loop `for (auto queued : friendRequests)'
\* iterates over copies: the assignments to queued.message and queued.read
\* change the copy, and the list keeps its entry as it was.
AddFriendRequest(a, m) ==
    /\ IF HasRequest(friendRequests, a)
       THEN /\ friendRequests' = friendRequests
            /\ ret' = Ret("addFriendRequest", FALSE)
       ELSE /\ friendRequests' =
                   Append(friendRequests, [address |-> a, message |-> m, read |-> FALSE])
            /\ ret' = Ret("addFriendRequest", TRUE)
    /\ emitted' = <<>>
    /\ UNCHANGED <<friendLst, circleLst, prefs, widgetSettings, autorun, platformExt,
                   loaded, profile, queue, files,
                   currentThread, lifecycle>>

\* Settings::getUnreadFriendRequests
getUnreadFriendRequests(reqs) == Cardinality({i \in 1..Len(reqs) : ~reqs[i].read})
\* Settings::getFriendRequest, for a valid index (0-based)
getFriendRequest(reqs, index) == reqs[index + 1]
\* Settings::getFriendRequestSize
getFriendRequestSize(reqs) == Len(reqs)

\* Settings::clearUnreadFriendRequests
ClearUnreadFriendRequests ==
    /\ friendRequests' = [i \in 1..Len(friendRequests) |->
                            [friendRequests[i] EXCEPT !.read = TRUE]]
    /\ emitted' = <<>>
    /\ ret' = Ret("clearUnreadFriendRequests", Void)
    /\ UNCHANGED <<friendLst, circleLst, prefs, widgetSettings, autorun, platformExt,
                   loaded, profile, queue, files,
                   currentThread, lifecycle>>

\* Settings::removeFriendRequest, for a valid index (0-based)
RemoveFriendRequest(index) ==
    /\ index \in 0..(Len(friendRequests) - 1)
    /\ friendRequests' = SubSeq(friendRequests, 1, index)
                         \o SubSeq(friendRequests, index + 2, Len(friendRequests))
    /\ emitted' = <<>>
    /\ ret' = Ret("removeFriendRequest", Void)
    /\ UNCHANGED <<friendLst, circleLst, prefs, widgetSettings, autorun, platformExt,
                   loaded, profile, queue, files,
                   currentThread, lifecycle>>

\* Settings::readFriendRequest, for a valid index (0-based)
ReadFriendRequest(index) ==
    /\ index \in 0..(Len(friendRequests) - 1)
    /\ friendRequests' = [friendRequests EXCEPT ![index + 1].read = TRUE]
    /\ emitted' = <<>>
    /\ ret' = Ret("readFriendRequest", Void)
    /\ UNCHANGED <<friendLst, circleLst, prefs, widgetSettings, autorun, platformExt,
                   loaded, profile, queue, files,
                   currentThread, lifecycle>>

(***************************************************************************)
(* Friends.                                                                *)
(***************************************************************************)
\* getOrInsertFriendPropRef ignoring an entry the key already has
getOrInsertFriendPropRef_Overwrite(fl, id) ==
    [k \in (DOMAIN fl) \cup {id} |->
        IF k = id THEN NewFriendProp(PkToString(id)) ELSE fl[k]]

\* getOrInsertFriendPropRef inserting an entry without an address
getOrInsertFriendPropRef_NoAddress(fl, id) ==
    IF id \in DOMAIN fl THEN fl
    ELSE [k \in (DOMAIN fl) \cup {id} |->
            IF k = id THEN NewFriendProp(<<"", "">>) ELSE fl[k]]

\* Settings::getOrInsertFriendPropRef: the collection once the key has an entry
getOrInsertFriendPropRef(fl, id) ==
    IF id \in DOMAIN fl THEN fl
    ELSE [k \in (DOMAIN fl) \cup {id} |->
            IF k = id THEN NewFriendProp(PkToString(id)) ELSE fl[k]]

\* a getter whose miss branch returns the stored alias of some other entry
getFriendAlias_NoMissBranch(fl, id) ==
    IF id \in DOMAIN fl THEN fl[id].alias
    ELSE IF DOMAIN fl # {} THEN fl[CHOOSE k \in DOMAIN fl : TRUE].alias ELSE ""

\* a lookup that goes through getOrInsertFriendPropRef
findFriend_Insert(fl, key) == getOrInsertFriendPropRef(fl, key)

\* friendLst.find(key) in a const member function: the collection after the
\* lookup is the collection before it
findFriend(fl, key) == fl

\* the per-friend getters: the entry's field, or the default when the key has no entry
getFriendAddress(fl, publicKey) ==
    IF ToxIdPublicKey(publicKey) \in DOMAIN fl
    THEN fl[ToxIdPublicKey(publicKey)].addr ELSE <<"", "">>
getFriendAlias(fl, id) == IF id \in DOMAIN fl THEN fl[id].alias ELSE ""
getFriendCircleID(fl, id) == IF id \in DOMAIN fl THEN fl[id].circleID ELSE -1
getFriendActivity(fl, id) == IF id \in DOMAIN fl THEN fl[id].activity ELSE NullTime
getAutoAcceptDir(fl, id) == IF id \in DOMAIN fl THEN fl[id].autoAcceptDir ELSE ""
getAutoAcceptCall(fl, id) == IF id \in DOMAIN fl THEN fl[id].autoAcceptCall ELSE 0
getAutoGroupInvite(fl, id) == IF id \in DOMAIN fl THEN fl[id].autoGroupInvite ELSE FALSE
getContactNote(fl, id) == IF id \in DOMAIN fl THEN fl[id].note ELSE ""

FriendFrame ==
    UNCHANGED <<friendRequests, circleLst, prefs, widgetSettings, autorun, platformExt,
                loaded, profile, queue, files,
                   currentThread, lifecycle>>

\* Settings::updateFriendAddress: the collection after the call; no signal
updateFriendAddress(fl0, newAddr) ==
    LET key == ToxIdPublicKey(newAddr)
        fl == getOrInsertFriendPropRef(fl0, key)
    IN [fl |-> [fl EXCEPT ![key].addr = newAddr], e |-> <<>>]

UpdateFriendAddress(newAddr) ==
    /\ ret' = Ret("updateFriendAddress", Void)
    /\ LET r == updateFriendAddress(friendLst, newAddr)
       IN /\ friendLst' = r.fl
          /\ emitted' = r.e
    /\ FriendFrame

\* Settings::setFriendAlias: the collection after the call; the code emits no signal
setFriendAlias(fl0, id, alias) ==
    LET fl == getOrInsertFriendPropRef(fl0, id)
    IN [fl |-> [fl EXCEPT ![id].alias = alias], e |-> <<>>]

SetFriendAlias(id, alias) ==
    /\ ret' = Ret("setFriendAlias", Void)
    /\ LET r == setFriendAlias(friendLst, id, alias)
       IN /\ friendLst' = r.fl
          /\ emitted' = r.e
    /\ FriendFrame

\* Settings::setFriendCircleID: the collection after the call; the code emits no signal
setFriendCircleID(fl0, id, circleID) ==
    LET fl == getOrInsertFriendPropRef(fl0, id)
    IN [fl |-> [fl EXCEPT ![id].circleID = circleID], e |-> <<>>]

SetFriendCircleID(id, circleID) ==
    /\ ret' = Ret("setFriendCircleID", Void)
    /\ LET r == setFriendCircleID(friendLst, id, circleID)
       IN /\ friendLst' = r.fl
          /\ emitted' = r.e
    /\ FriendFrame

\* Settings::setFriendActivity: the collection after the call; the code emits no signal
setFriendActivity(fl0, id, activity) ==
    LET fl == getOrInsertFriendPropRef(fl0, id)
    IN [fl |-> [fl EXCEPT ![id].activity = activity], e |-> <<>>]

SetFriendActivity(id, activity) ==
    /\ ret' = Ret("setFriendActivity", Void)
    /\ LET r == setFriendActivity(friendLst, id, activity)
       IN /\ friendLst' = r.fl
          /\ emitted' = r.e
    /\ FriendFrame

\* Settings::setAutoAcceptDir: the collection after the call and the signals it emits
setAutoAcceptDir(fl0, id, dir) ==
    LET fl == getOrInsertFriendPropRef(fl0, id)
    IN IF fl[id].autoAcceptDir # dir
       THEN [fl |-> [fl EXCEPT ![id].autoAcceptDir = dir],
             e |-> <<Sig("autoAcceptDirChanged", <<id, dir>>)>>]
       ELSE [fl |-> fl, e |-> <<>>]

SetAutoAcceptDir(id, dir) ==
    /\ ret' = Ret("setAutoAcceptDir", Void)
    /\ LET r == setAutoAcceptDir(friendLst, id, dir)
       IN /\ friendLst' = r.fl
          /\ emitted' = r.e
    /\ FriendFrame

\* Settings::setAutoAcceptCall: the collection after the call and the signals it emits
setAutoAcceptCall(fl0, id, accept) ==
    LET fl == getOrInsertFriendPropRef(fl0, id)
    IN IF fl[id].autoAcceptCall # accept
       THEN [fl |-> [fl EXCEPT ![id].autoAcceptCall = accept],
             e |-> <<Sig("autoAcceptCallChanged", <<id, accept>>)>>]
       ELSE [fl |-> fl, e |-> <<>>]

SetAutoAcceptCall(id, accept) ==
    /\ ret' = Ret("setAutoAcceptCall", Void)
    /\ LET r == setAutoAcceptCall(friendLst, id, accept)
       IN /\ friendLst' = r.fl
          /\ emitted' = r.e
    /\ FriendFrame

\* Settings::setAutoGroupInvite: the collection after the call and the signals it emits
setAutoGroupInvite(fl0, id, accept) ==
    LET fl == getOrInsertFriendPropRef(fl0, id)
    IN IF fl[id].autoGroupInvite # accept
       THEN [fl |-> [fl EXCEPT ![id].autoGroupInvite = accept],
             e |-> <<Sig("autoGroupInviteChanged", <<id, accept>>)>>]
       ELSE [fl |-> fl, e |-> <<>>]

SetAutoGroupInvite(id, accept) ==
    /\ ret' = Ret("setAutoGroupInvite", Void)
    /\ LET r == setAutoGroupInvite(friendLst, id, accept)
       IN /\ friendLst' = r.fl
          /\ emitted' = r.e
    /\ FriendFrame

\* Settings::setContactNote: the collection after the call and the signals it emits
setContactNote(fl0, id, note) ==
    LET fl == getOrInsertFriendPropRef(fl0, id)
    IN IF fl[id].note # note
       THEN [fl |-> [fl EXCEPT ![id].note = note],
             e |-> <<Sig("contactNoteChanged", <<id, note>>)>>]
       ELSE [fl |-> fl, e |-> <<>>]

SetContactNote(id, note) ==
    /\ ret' = Ret("setContactNote", Void)
    /\ LET r == setContactNote(friendLst, id, note)
       IN /\ friendLst' = r.fl
          /\ emitted' = r.e
    /\ FriendFrame

\* Settings::removeFriendSettings
RemoveFriendSettings(id) ==
    /\ friendLst' = [k \in (DOMAIN friendLst) \ {id} |-> friendLst[k]]
    /\ emitted' = <<>>
    /\ ret' = Ret("removeFriendSettings", Void)
    /\ FriendFrame

\* Settings::saveFriendSettings: savePersonal() and nothing else
SaveFriendSettings(t, id) ==
    /\ CanPost(t)
    /\ LET after == savePersonal(t, queue, files, loaded, prefs, friendLst,
                                 friendRequests, circleLst)
       IN /\ queue' = after.queue
          /\ files' = after.files
    /\ emitted' = <<>>
    /\ ret' = Ret("saveFriendSettings", Void)
    /\ UNCHANGED <<friendLst, friendRequests, circleLst, prefs, widgetSettings, autorun,
                   platformExt, loaded, profile,
                   currentThread, lifecycle>>

(***************************************************************************)
(* Circles.  The callers' circle ids are 0-based indexes into circleLst.   *)
(***************************************************************************)
\* tr("Circle #%1").arg(n)
GeneratedCircleName(n) == "Circle #" \o ToString(n)

CircleFrame ==
    UNCHANGED <<friendLst, friendRequests, prefs, widgetSettings, autorun, platformExt,
                loaded, profile,
                   currentThread, lifecycle>>

\* Settings::getCircleCount
getCircleCount(circles) == Len(circles)
\* Settings::getCircleName and getCircleExpanded, for a valid id
getCircleName(circles, id) == circles[id + 1].name
getCircleExpanded(circles, id) == circles[id + 1].expanded

\* Settings::setCircleName, for a valid id: the list after the store; no signal
setCircleName(circles, id, name) ==
    [circles |-> [circles EXCEPT ![id + 1].name = name], e |-> <<>>]

SetCircleName(t, id, name) ==
    /\ id \in 0..(Len(circleLst) - 1)
    /\ CanPost(t)
    /\ circleLst' = setCircleName(circleLst, id, name).circles
    /\ LET after == savePersonal(t, queue, files, loaded, prefs, friendLst,
                                 friendRequests, circleLst')
       IN /\ queue' = after.queue
          /\ files' = after.files
    /\ emitted' = setCircleName(circleLst, id, name).e
    /\ ret' = Ret("setCircleName", Void)
    /\ CircleFrame

\* Settings::addCircle
AddCircle(t, name) ==
    /\ Len(circleLst) < MaxCircles
    /\ CanPost(t)
    /\ LET cp == [name |-> IF name = "" THEN GeneratedCircleName(Len(circleLst) + 1)
                           ELSE name,
                  expanded |-> FALSE]
       IN circleLst' = Append(circleLst, cp)
    /\ LET after == savePersonal(t, queue, files, loaded, prefs, friendLst,
                                 friendRequests, circleLst')
       IN /\ queue' = after.queue
          /\ files' = after.files
    /\ emitted' = <<>>
    /\ ret' = Ret("addCircle", Len(circleLst') - 1)
    /\ CircleFrame

\* Settings::setCircleExpanded, for a valid id: the list after the store; no signal
setCircleExpanded(circles, id, expanded) ==
    [circles |-> [circles EXCEPT ![id + 1].expanded = expanded], e |-> <<>>]

SetCircleExpanded(id, expanded) ==
    /\ id \in 0..(Len(circleLst) - 1)
    /\ circleLst' = setCircleExpanded(circleLst, id, expanded).circles
    /\ emitted' = setCircleExpanded(circleLst, id, expanded).e
    /\ ret' = Ret("setCircleExpanded", Void)
    /\ UNCHANGED <<queue, files,
                   currentThread, lifecycle>>
    /\ CircleFrame

\* removeCircle erasing the slot and shifting the later circles down
removeCircleList_Shift(circles, id) ==
    SubSeq(circles, 1, id) \o SubSeq(circles, id + 2, Len(circles))

\* removeCircle reindexing the friends that referred to the moved circle
removeCircleFriends_Reindex(fl, n, id) ==
    [k \in DOMAIN fl |->
        IF fl[k].circleID = n - 1 THEN [fl[k] EXCEPT !.circleID = id] ELSE fl[k]]

\* the list after `circleLst[id] = circleLst.last(); circleLst.pop_back();'
removeCircleList(circles, id) ==
    LET assigned == [circles EXCEPT ![id + 1] = circles[Len(circles)]]
    IN SubSeq(assigned, 1, Len(circles) - 1)

\* the friend collection after removeCircle on a list of n circles: it is not touched
removeCircleFriends(fl, n, id) == fl

\* Settings::removeCircle, for a valid id
RemoveCircle(t, id) ==
    /\ id \in 0..(Len(circleLst) - 1)
    /\ CanPost(t)
    /\ circleLst' = removeCircleList(circleLst, id)
    /\ friendLst' = removeCircleFriends(friendLst, Len(circleLst), id)
    /\ LET after == savePersonal(t, queue, files, loaded, prefs, friendLst',
                                 friendRequests, circleLst')
       IN /\ queue' = after.queue
          /\ files' = after.files
    /\ emitted' = <<>>
    /\ ret' = Ret("removeCircle", Len(circleLst'))
    /\ UNCHANGED <<friendRequests, prefs, widgetSettings, autorun, platformExt, loaded,
                   profile,
                   currentThread, lifecycle>>

(***************************************************************************)
(* The state after construction: empty collections, the load defaults,     *)
(* loaded set by loadGlobal, nothing queued.  The build flag and the       *)
(* active profile are the environment's.                                   *)
(***************************************************************************)
EmptyMap == [k \in {} |-> k]

Init ==
    /\ friendLst = EmptyMap
    /\ friendRequests = <<>>
    /\ circleLst = <<>>
    /\ prefs = DefaultPrefs
    /\ widgetSettings = EmptyMap
    /\ autorun = FALSE
    /\ platformExt \in BOOLEAN
    /\ loaded = TRUE
    /\ profile \in {NoProfile} \cup Profiles
    /\ queue = <<>>
    /\ files = EmptyMap
    /\ emitted = <<>>
    /\ ret = Ret("Settings", Void)
    /\ currentThread = "main"
    /\ settings = 1
    /\ pc = [c \in Callers |-> "idle"]
    /\ constructed = 1
    /\ workers = 1

(***************************************************************************)
(* The friend-request list under its four mutators.                        *)
(***************************************************************************)
NextRequests ==
    \/ \E a \in ReqAddrs, m \in ReqMsgs : AddFriendRequest(a, m)
    \/ ClearUnreadFriendRequests
    \/ \E index \in 0..1 : RemoveFriendRequest(index)
    \/ \E index \in 0..1 : ReadFriendRequest(index)

SpecRequests == Init /\ [][NextRequests]_vars

\* the entries of the list that have address a
EntriesOf(reqs, a) == {i \in 1..Len(reqs) : reqs[i].address = a}

\* C1: re-adding an address that already has a pending request keeps the number
\* of entries and leaves the single entry of that address with the new message
\* and read = false.
C1_ReAddUpdatesEntry ==
    [][\A a \in ReqAddrs, m \in ReqMsgs :
          (HasRequest(friendRequests, a) /\ AddFriendRequest(a, m))
          => /\ Len(friendRequests') = Len(friendRequests)
             /\ \A i \in EntriesOf(friendRequests', a) :
                   /\ friendRequests'[i].message = m
                   /\ friendRequests'[i].read = FALSE]_vars

\* C2: from a list without duplicates, the list holds at most one entry per
\* address after any sequence of add, remove, read and clear.
C2_OneEntryPerAddress ==
    \A a \in ReqAddrs : Cardinality(EntriesOf(friendRequests, a)) <= 1

\* C2 witness: both addresses pending, one marked read, and the last call was a
\* re-add of a pending address.
C2_Witness ==
    /\ ret = Ret("addFriendRequest", FALSE)
    /\ Len(friendRequests) = 2
    /\ \E i \in 1..Len(friendRequests) : friendRequests[i].read

\* C3: addFriendRequest returns true exactly when it appended an entry, which it
\* does exactly when the address had no entry; otherwise it returns false and the
\* list keeps its length.
C3_ReturnTellsInserted ==
    [][\A a \in ReqAddrs, m \in ReqMsgs :
          AddFriendRequest(a, m)
          => /\ ret'[2] = ~HasRequest(friendRequests, a)
             /\ ret'[2] = (Len(friendRequests') = Len(friendRequests) + 1)
             /\ ~ret'[2] = (Len(friendRequests') = Len(friendRequests))
             /\ ret'[2] => friendRequests'[Len(friendRequests')].address = a]_vars

\* C3 witness: a call returned false with the address's entry still pending.
C3_Witness ==
    /\ ret = Ret("addFriendRequest", FALSE)
    /\ Len(friendRequests) = 1

(***************************************************************************)
(* The circle list under its mutators, with the friends' circle ids and    *)
(* the saves the circle mutators make.                                     *)
(***************************************************************************)
\* the friends whose circle id the circle scenario sets
CircleKeys == {"pk1"}

NextCircles ==
    \/ \E t \in Threads, name \in CircleNames : AddCircle(t, name)
    \/ \E t \in Threads, id \in 0..(MaxCircles - 1) : RemoveCircle(t, id)
    \/ \E id \in CircleKeys, circleID \in -1..(MaxCircles - 1) :
          SetFriendCircleID(id, circleID)
    \/ ProcessQueued

\* setAutorun is no part of this scenario: the build flag is immaterial to it
InitCircles == Init /\ ~platformExt

SpecCircles == InitCircles /\ [][NextCircles]_vars

\* C4: removeCircle(i) on n >= 1 circles leaves n-1 circles, slot i holding the
\* former last circle (when i < n-1) and every other remaining slot as it was,
\* and returns n-1.
C4_RemoveCircleSwapsLast ==
    [][\A t \in Threads, id \in 0..(MaxCircles - 1) :
          RemoveCircle(t, id)
          => LET n == Len(circleLst)
             IN /\ Len(circleLst') = n - 1
                /\ id < n - 1 => circleLst'[id + 1] = circleLst[n]
                /\ \A j \in 1..(n - 1) : j # id + 1 => circleLst'[j] = circleLst[j]
                /\ ret' = Ret("removeCircle", n - 1)]_vars

\* C4 witness: index 0 was removed from three circles whose last two had the
\* generated names: the former last circle is in slot 0, the second is in place.
C4_Witness ==
    /\ ret = Ret("removeCircle", 2)
    /\ Len(circleLst) = 2
    /\ circleLst[1].name = GeneratedCircleName(3)
    /\ circleLst[2].name = GeneratedCircleName(2)

\* C5: removeCircle leaves every friend entry's circleID as it was: after
\* removing i < n-1 from n circles, a friend that stored n-1 still stores n-1,
\* which no longer is an index of the list, and a friend that stored i now
\* refers to the circle moved into slot i.
C5_RemoveCircleKeepsFriendIds ==
    [][\A t \in Threads, id \in 0..(MaxCircles - 1) :
          RemoveCircle(t, id)
          => LET n == Len(circleLst)
             IN /\ DOMAIN friendLst' = DOMAIN friendLst
                /\ \A k \in DOMAIN friendLst :
                      /\ friendLst'[k] = friendLst[k]
                      /\ (id < n - 1 /\ friendLst[k].circleID = n - 1)
                         => /\ getFriendCircleID(friendLst', k) = n - 1
                            /\ getFriendCircleID(friendLst', k)
                                   \notin 0..(getCircleCount(circleLst') - 1)
                      /\ (id < n - 1 /\ friendLst[k].circleID = id)
                         => circleLst'[getFriendCircleID(friendLst', k) + 1]
                               = circleLst[n]]_vars

\* C5 witness: circle 0 of three was removed while a friend referred to circle 2.
C5_Witness ==
    /\ ret = Ret("removeCircle", 2)
    /\ circleLst[1].name = GeneratedCircleName(3)
    /\ \E k \in DOMAIN friendLst : friendLst[k].circleID = 2

(***************************************************************************)
(* The friend collection under the per-friend setters and removal.         *)
(***************************************************************************)
NextFriends ==
    \/ \E a \in Addresses : UpdateFriendAddress(a) /\ FriendsBounded(friendLst')
    \/ \E id \in Keys, alias \in StrVals :
          SetFriendAlias(id, alias) /\ FriendsBounded(friendLst')
    \/ \E id \in Keys, circleID \in -1..1 :
          SetFriendCircleID(id, circleID) /\ FriendsBounded(friendLst')
    \/ \E id \in Keys, activity \in Times :
          SetFriendActivity(id, activity) /\ FriendsBounded(friendLst')
    \/ \E id \in Keys, dir \in StrVals :
          SetAutoAcceptDir(id, dir) /\ FriendsBounded(friendLst')
    \/ \E id \in Keys, accept \in CallFlags :
          SetAutoAcceptCall(id, accept) /\ FriendsBounded(friendLst')
    \/ \E id \in Keys, accept \in BoolVals :
          SetAutoGroupInvite(id, accept) /\ FriendsBounded(friendLst')
    \/ \E id \in Keys, note \in StrVals :
          SetContactNote(id, note) /\ FriendsBounded(friendLst')
    \/ \E id \in Keys : RemoveFriendSettings(id)

InitFriends == Init /\ ~platformExt

SpecFriends == InitFriends /\ [][NextFriends]_vars

\* C6: for a key without an entry (never referenced, or removed) each
\* per-friend getter returns its default: "" for alias, note and auto-accept
\* directory, -1 for the circle id, false for auto group invite, no flags for
\* auto-accept call.
C6_DefaultsOnMiss ==
    \A k \in Keys :
        k \notin DOMAIN friendLst
        => /\ getFriendAlias(friendLst, k) = ""
           /\ getFriendCircleID(friendLst, k) = -1
           /\ getContactNote(friendLst, k) = ""
           /\ getAutoAcceptDir(friendLst, k) = ""
           /\ getAutoGroupInvite(friendLst, k) = FALSE
           /\ getAutoAcceptCall(friendLst, k) = 0

\* C6 witness: a key was removed while another key has an entry with an alias.
C6_Witness ==
    /\ ret = Ret("removeFriendSettings", Void)
    /\ \E k \in Keys : k \notin DOMAIN friendLst
    /\ \E k \in DOMAIN friendLst : friendLst[k].alias # ""

\* a call of the per-friend setter that assigns field f of key k's entry
FriendSetterCall(k, f) ==
    CASE f = "addr" -> \E a \in AddrsOf(k) : UpdateFriendAddress(a)
      [] f = "alias" -> \E alias \in StrVals : SetFriendAlias(k, alias)
      [] f = "circleID" -> \E circleID \in -1..1 : SetFriendCircleID(k, circleID)
      [] f = "activity" -> \E activity \in Times : SetFriendActivity(k, activity)
      [] f = "note" -> \E note \in StrVals : SetContactNote(k, note)
      [] f = "autoAcceptDir" -> \E dir \in StrVals : SetAutoAcceptDir(k, dir)
      [] f = "autoAcceptCall" -> \E accept \in CallFlags : SetAutoAcceptCall(k, accept)
      [] f = "autoGroupInvite" -> \E accept \in BoolVals : SetAutoGroupInvite(k, accept)

\* every entry is stored under the public key of its own address, so no two
\* entries share a public key
FriendKeysUnique ==
    /\ \A k \in DOMAIN friendLst : ToxIdPublicKey(friendLst[k].addr) = k
    /\ \A k1, k2 \in DOMAIN friendLst :
          k1 # k2 => ToxIdPublicKey(friendLst[k1].addr) # ToxIdPublicKey(friendLst[k2].addr)

\* C7: a per-friend setter called for key k leaves an entry for k; when k had
\* none, the entry has k's canonical string as address and the defaults in every
\* field the setter did not assign; when k had one, the other fields are kept;
\* no entry of another key is added, removed or changed; and in every state no
\* two entries share a public key.
C7_ReadOrInsert ==
    /\ []FriendKeysUnique
    /\ [][\A k \in Keys, f \in FriendFields :
             FriendSetterCall(k, f)
             => /\ k \in DOMAIN friendLst'
                /\ \A g \in FriendFields \ {f} :
                      friendLst'[k][g] = IF k \in DOMAIN friendLst
                                         THEN friendLst[k][g]
                                         ELSE NewFriendProp(PkToString(k))[g]
                /\ DOMAIN friendLst' = (DOMAIN friendLst) \cup {k}
                /\ \A k2 \in (DOMAIN friendLst) \ {k} :
                      friendLst'[k2] = friendLst[k2]]_vars

\* C7 witness: a setter inserted the entry of a second key: it has the key's
\* canonical address, the assigned alias and the defaults elsewhere, beside the
\* entry of the first key, which has a full address.
C7_Witness ==
    /\ ret = Ret("setFriendAlias", Void)
    /\ DOMAIN friendLst = Keys
    /\ \E k \in Keys :
          /\ friendLst[k] = [NewFriendProp(PkToString(k)) EXCEPT !.alias = "a"]
          /\ \E k2 \in Keys \ {k} : friendLst[k2].addr # PkToString(k2)


(***************************************************************************)
(* The preference setters as calls on the store.                           *)
(***************************************************************************)
PrefFrame ==
    UNCHANGED <<friendLst, friendRequests, circleLst, widgetSettings, autorun,
                platformExt, loaded, profile, queue, files,
                   currentThread, lifecycle>>

\* any setter of the pattern `if (newValue != field) { field = newValue; emit ...; }'
SetPlain(s, v) ==
    /\ ret' = Ret("set", Void)
    /\ LET r == setPlain(prefs, s, v)
       IN /\ prefs' = r.p
          /\ emitted' = r.e
    /\ PrefFrame

SetAutoAwayTime(newValue) ==
    /\ ret' = Ret("setAutoAwayTime", Void)
    /\ LET r == setAutoAwayTime(prefs, newValue)
       IN /\ prefs' = r.p
          /\ emitted' = r.e
    /\ PrefFrame

SetToxmeInfo(info) ==
    /\ ret' = Ret("setToxmeInfo", Void)
    /\ LET r == setToxmeInfo(prefs, info)
       IN /\ prefs' = r.p
          /\ emitted' = r.e
    /\ PrefFrame

SetToxmePass(pass) ==
    /\ ret' = Ret("setToxmePass", Void)
    /\ LET r == setToxmePass(prefs, pass)
       IN /\ prefs' = r.p
          /\ emitted' = r.e
    /\ PrefFrame

SetCurrentProfile(name) ==
    /\ ret' = Ret("setCurrentProfile", Void)
    /\ LET r == setCurrentProfile(prefs, name)
       IN /\ prefs' = r.p
          /\ emitted' = r.e
    /\ PrefFrame

DeleteToxme ==
    /\ ret' = Ret("deleteToxme", Void)
    /\ LET r == deleteToxme(prefs)
       IN /\ prefs' = r.p
          /\ emitted' = r.e
    /\ PrefFrame

SetToxme(name, server, bio, priv, pass) ==
    /\ ret' = Ret("setToxme", Void)
    /\ LET r == setToxme(prefs, name, server, bio, priv, pass)
       IN /\ prefs' = r.p
          /\ emitted' = r.e
    /\ PrefFrame

\* Settings::setMakeToxPortable called on thread t: the settings file of the
\* old location is removed, the flag stored, saveGlobal() called, the signal emitted
setMakeToxPortable(t, q, fs, ld, p, ws, newValue) ==
    IF newValue # p.makeToxPortable
    THEN LET p2 == [p EXCEPT !.makeToxPortable = newValue]
             after == saveGlobal(t, q, RemoveFile(fs, GlobalPath(p)), ld, p2, ws)
         IN [p |-> p2, queue |-> after.queue, files |-> after.files,
             e |-> <<Sig("makeToxPortableChanged", newValue)>>]
    ELSE [p |-> p, queue |-> q, files |-> fs, e |-> <<>>]

SetMakeToxPortable(t, newValue) ==
    /\ ret' = Ret("setMakeToxPortable", Void)
    /\ CanPost(t)
    /\ LET r == setMakeToxPortable(t, queue, files, loaded, prefs, widgetSettings,
                                   newValue)
       IN /\ prefs' = r.p
          /\ queue' = r.queue
          /\ files' = r.files
          /\ emitted' = r.e
    /\ UNCHANGED <<friendLst, friendRequests, circleLst, widgetSettings, autorun,
                   platformExt, loaded, profile,
                   currentThread, lifecycle>>

SetAutorun(newValue) ==
    /\ ret' = Ret("setAutorun", Void)
    /\ LET r == setAutorun(platformExt, autorun, newValue)
       IN /\ autorun' = r.autorun
          /\ emitted' = r.e
    /\ UNCHANGED <<friendLst, friendRequests, circleLst, prefs, widgetSettings,
                   platformExt, loaded, profile, queue, files,
                   currentThread, lifecycle>>

SetWidgetData(uniqueName, data) ==
    /\ ret' = Ret("setWidgetData", Void)
    /\ LET r == setWidgetData(widgetSettings, uniqueName, data)
       IN /\ widgetSettings' = r.ws
          /\ emitted' = r.e
    /\ UNCHANGED <<friendLst, friendRequests, circleLst, prefs, autorun, platformExt,
                   loaded, profile, queue, files,
                   currentThread, lifecycle>>

(***************************************************************************)
(* The store under its setters.                                            *)
(***************************************************************************)
AwayVals == IntVals \cup {DefaultPrefs.autoAwayTime}
ToxmeNames == {<<"n">>, <<"n", "@">>}
ToxmeServers == {<<"s">>}

\* how many fields of the store differ from the freshly constructed store; the
\* profile id goes with the profile name
SetterEdits ==
    Cardinality(PrefEdits(prefs) \ {"currentProfileId"})
    + Cardinality(FriendEdits(friendLst))
    + Len(circleLst)
    + Cardinality(DOMAIN widgetSettings)
    + (IF autorun THEN 1 ELSE 0)

\* the calls are made on the settings thread, so a save runs at once; a call
\* is taken when the store it leaves is within the bound
NextSetters ==
    \/ \E s \in PlainSetters : \E v \in Vals(s) :
          SetPlain(s, v) /\ SetterEdits' <= MaxEdits
    \/ \E v \in AwayVals : SetAutoAwayTime(v) /\ SetterEdits' <= MaxEdits
    \/ \E info \in InfoVals : SetToxmeInfo(info) /\ SetterEdits' <= MaxEdits
    \/ \E pass \in StrVals : SetToxmePass(pass) /\ SetterEdits' <= MaxEdits
    \/ \E name \in ProfileNames : SetCurrentProfile(name) /\ SetterEdits' <= MaxEdits
    \/ DeleteToxme
    \/ \E name \in ToxmeNames, server \in ToxmeServers, bio \in StrVals,
          priv \in BoolVals, pass \in StrVals :
          SetToxme(name, server, bio, priv, pass) /\ SetterEdits' <= MaxEdits
    \/ \E v \in BoolVals :
          SetMakeToxPortable(settingsThread, v) /\ SetterEdits' <= MaxEdits
    \/ \E v \in BoolVals : SetAutorun(v) /\ SetterEdits' <= MaxEdits
    \/ \E n \in WidgetNames, data \in StrVals :
          SetWidgetData(n, data) /\ SetterEdits' <= MaxEdits
    \/ \E id \in CircleKeys, alias \in StrVals :
          SetFriendAlias(id, alias) /\ SetterEdits' <= MaxEdits
    \/ \E id \in CircleKeys, circleID \in {-1, 0} :
          SetFriendCircleID(id, circleID) /\ SetterEdits' <= MaxEdits
    \/ \E id \in CircleKeys, activity \in Times :
          SetFriendActivity(id, activity) /\ SetterEdits' <= MaxEdits
    \/ \E id \in CircleKeys, dir \in StrVals :
          SetAutoAcceptDir(id, dir) /\ SetterEdits' <= MaxEdits
    \/ \E id \in CircleKeys, accept \in CallFlags :
          SetAutoAcceptCall(id, accept) /\ SetterEdits' <= MaxEdits
    \/ \E id \in CircleKeys, accept \in BoolVals :
          SetAutoGroupInvite(id, accept) /\ SetterEdits' <= MaxEdits
    \/ \E id \in CircleKeys, note \in StrVals :
          SetContactNote(id, note) /\ SetterEdits' <= MaxEdits
    \/ AddCircle(settingsThread, "") /\ SetterEdits' <= MaxEdits
    \/ \E id \in {0}, name \in CircleNames : SetCircleName(settingsThread, id, name)
    \/ \E id \in {0}, expanded \in BoolVals : SetCircleExpanded(id, expanded)

\* no profile is logged in: savePersonal() has nothing to save
InitSetters == Init /\ profile = NoProfile

SpecSetters == InitSetters /\ [][NextSetters]_vars


\* the properties whose own setter emits the signal sig with their value
ReportsField(sig) ==
    {s.field : s \in {x \in PlainSetters : x.signal = sig /\ x.carries = x.field}}

ValidCircleIds == 0..(Len(circleLst) - 1)

\* C8, as the spec states it: for every preference setter and every value v,
\* set(v) immediately followed by the paired get() returns exactly v.  Each
\* conjunct is one setter: a step that is the call set(v) ends in a state
\* whose getter returns v.
C8_SetThenGet ==
    [][/\ \A s \in PlainSetters : \A v \in Vals(s) :
             SetPlain(s, v) => getPlain(prefs', s) = v
       /\ \A v \in AwayVals : SetAutoAwayTime(v) => getAutoAwayTime(prefs') = v
       /\ \A info \in InfoVals : SetToxmeInfo(info) => getToxmeInfo(prefs') = info
       /\ \A pass \in StrVals : SetToxmePass(pass) => getToxmePass(prefs') = pass
       /\ \A name \in ProfileNames :
             SetCurrentProfile(name) => getCurrentProfile(prefs') = name
       /\ \A v \in BoolVals :
             SetMakeToxPortable(settingsThread, v) => getMakeToxPortable(prefs') = v
       /\ \A v \in BoolVals : SetAutorun(v) => getAutorun(platformExt', autorun') = v
       /\ \A n \in WidgetNames, data \in StrVals :
             SetWidgetData(n, data) => getWidgetData(widgetSettings', n) = data
       /\ \A id \in Keys, v \in StrVals :
             /\ SetFriendAlias(id, v) => getFriendAlias(friendLst', id) = v
             /\ SetAutoAcceptDir(id, v) => getAutoAcceptDir(friendLst', id) = v
             /\ SetContactNote(id, v) => getContactNote(friendLst', id) = v
       /\ \A id \in Keys, v \in -1..1 :
             SetFriendCircleID(id, v) => getFriendCircleID(friendLst', id) = v
       /\ \A id \in Keys, v \in Times :
             SetFriendActivity(id, v) => getFriendActivity(friendLst', id) = v
       /\ \A id \in Keys, v \in CallFlags :
             SetAutoAcceptCall(id, v) => getAutoAcceptCall(friendLst', id) = v
       /\ \A id \in Keys, v \in BoolVals :
             SetAutoGroupInvite(id, v) => getAutoGroupInvite(friendLst', id) = v
       /\ \A id \in ValidCircleIds, name \in CircleNames :
             SetCircleName(settingsThread, id, name) => getCircleName(circleLst', id) = name
       /\ \A id \in ValidCircleIds, v \in BoolVals :
             SetCircleExpanded(id, v) => getCircleExpanded(circleLst', id) = v]_vars

\* C8, amended: in every state the store reaches, for every preference setter
\* and every value v, the getter applied to the store that set(v) leaves
\* returns v, with three exceptions: setAutoAwayTime(v) with v < 0 stores 10;
\* setToxmeInfo(v) stores v only if v splits at "@" into exactly two parts,
\* and otherwise leaves the stored value; setAutorun is left out (getAutorun
\* reads the platform's registration, and is false without the platform
\* extensions).
C8_SetThenGetValid ==
    /\ \A s \in PlainSetters : \A v \in Vals(s) :
          getPlain(setPlain(prefs, s, v).p, s) = v
    /\ \A v \in AwayVals :
          getAutoAwayTime(setAutoAwayTime(prefs, v).p) = IF v < 0 THEN 10 ELSE v
    /\ \A info \in InfoVals :
          getToxmeInfo(setToxmeInfo(prefs, info).p)
              = IF SplitSize(info) = 2 THEN info ELSE getToxmeInfo(prefs)
    /\ \A pass \in StrVals : getToxmePass(setToxmePass(prefs, pass).p) = pass
    /\ \A name \in ProfileNames :
          LET p == setCurrentProfile(prefs, name).p
          IN getCurrentProfile(p) = name /\ getCurrentProfileId(p) = makeProfileId(name)
    /\ \A v \in BoolVals :
          getMakeToxPortable(setMakeToxPortable(settingsThread, queue, files, loaded,
                                                prefs, widgetSettings, v).p) = v
    /\ \A n \in WidgetNames, data \in StrVals :
          getWidgetData(setWidgetData(widgetSettings, n, data).ws, n) = data
    /\ \A id \in Keys, v \in StrVals :
          /\ getFriendAlias(setFriendAlias(friendLst, id, v).fl, id) = v
          /\ getAutoAcceptDir(setAutoAcceptDir(friendLst, id, v).fl, id) = v
          /\ getContactNote(setContactNote(friendLst, id, v).fl, id) = v
    /\ \A id \in Keys, v \in -1..1 :
          getFriendCircleID(setFriendCircleID(friendLst, id, v).fl, id) = v
    /\ \A id \in Keys, v \in Times :
          getFriendActivity(setFriendActivity(friendLst, id, v).fl, id) = v
    /\ \A id \in Keys, v \in CallFlags :
          getAutoAcceptCall(setAutoAcceptCall(friendLst, id, v).fl, id) = v
    /\ \A id \in Keys, v \in BoolVals :
          getAutoGroupInvite(setAutoGroupInvite(friendLst, id, v).fl, id) = v
    /\ \A a \in Addresses :
          getFriendAddress(updateFriendAddress(friendLst, a).fl, a) = a
    /\ \A id \in ValidCircleIds, name \in CircleNames :
          getCircleName(setCircleName(circleLst, id, name).circles, id) = name
    /\ \A id \in ValidCircleIds, v \in BoolVals :
          getCircleExpanded(setCircleExpanded(circleLst, id, v).circles, id) = v

\* setAutoAwayTime(5) has just stored 5 over the default and announced it
C8_Witness ==
    /\ ret = Ret("setAutoAwayTime", Void)
    /\ getAutoAwayTime(prefs) = 5
    /\ emitted = <<Sig("autoAwayTimeChanged", 5)>>


\* C9: a change notification fires only on an actual change.  In every state
\* the store reaches, for every setter and value v: if v equals the stored
\* value (for a per-friend setter: the value in the key's entry), set(v) emits
\* nothing and leaves the stored value; and applied to the store that set(v)
\* leaves, the same set(v) emits nothing.
C9_NotifyOnlyOnChange ==
    /\ \A s \in PlainSetters : \A v \in Vals(s) :
          LET r == setPlain(prefs, s, v)
          IN /\ getPlain(prefs, s) = v => r.e = <<>> /\ r.p = prefs
             /\ setPlain(r.p, s, v).e = <<>>
    /\ \A v \in AwayVals :
          LET r == setAutoAwayTime(prefs, v)
          IN /\ getAutoAwayTime(prefs) = v => r.e = <<>> /\ r.p = prefs
             /\ setAutoAwayTime(r.p, v).e = <<>>
    /\ \A info \in InfoVals :
          LET r == setToxmeInfo(prefs, info)
          IN /\ getToxmeInfo(prefs) = info => r.e = <<>> /\ r.p = prefs
             /\ setToxmeInfo(r.p, info).e = <<>>
    /\ \A pass \in StrVals :
          LET r == setToxmePass(prefs, pass)
          IN /\ getToxmePass(prefs) = pass => r.e = <<>> /\ r.p = prefs
             /\ setToxmePass(r.p, pass).e = <<>>
    /\ \A name \in ProfileNames :
          LET r == setCurrentProfile(prefs, name)
          IN /\ getCurrentProfile(prefs) = name => r.e = <<>> /\ r.p = prefs
             /\ setCurrentProfile(r.p, name).e = <<>>
    /\ \A t \in Threads, v \in BoolVals :
          LET r == setMakeToxPortable(t, queue, files, loaded, prefs, widgetSettings, v)
          IN /\ getMakeToxPortable(prefs) = v => r.e = <<>> /\ r.p = prefs
             /\ setMakeToxPortable(t, r.queue, r.files, loaded, r.p, widgetSettings,
                                   v).e = <<>>
    /\ \A v \in BoolVals :
          LET r == setAutorun(platformExt, autorun, v)
          IN /\ getAutorun(platformExt, autorun) = v
                   => r.e = <<>> /\ r.autorun = autorun
             /\ setAutorun(platformExt, r.autorun, v).e = <<>>
    /\ \A n \in WidgetNames, data \in StrVals :
          LET r == setWidgetData(widgetSettings, n, data)
          IN /\ (n \in DOMAIN widgetSettings /\ widgetSettings[n] = data)
                   => r.e = <<>> /\ r.ws = widgetSettings
             /\ setWidgetData(r.ws, n, data).e = <<>>
    /\ \A id \in Keys, v \in StrVals :
          LET d == setAutoAcceptDir(friendLst, id, v)
              n == setContactNote(friendLst, id, v)
          IN /\ (id \in DOMAIN friendLst /\ getAutoAcceptDir(friendLst, id) = v)
                   => d.e = <<>> /\ getAutoAcceptDir(d.fl, id) = v
             /\ setAutoAcceptDir(d.fl, id, v).e = <<>>
             /\ (id \in DOMAIN friendLst /\ getContactNote(friendLst, id) = v)
                   => n.e = <<>> /\ getContactNote(n.fl, id) = v
             /\ setContactNote(n.fl, id, v).e = <<>>
             /\ setFriendAlias(friendLst, id, v).e = <<>>
    /\ \A id \in Keys, v \in CallFlags :
          LET r == setAutoAcceptCall(friendLst, id, v)
          IN /\ (id \in DOMAIN friendLst /\ getAutoAcceptCall(friendLst, id) = v)
                   => r.e = <<>> /\ getAutoAcceptCall(r.fl, id) = v
             /\ setAutoAcceptCall(r.fl, id, v).e = <<>>
    /\ \A id \in Keys, v \in BoolVals :
          LET r == setAutoGroupInvite(friendLst, id, v)
          IN /\ (id \in DOMAIN friendLst /\ getAutoGroupInvite(friendLst, id) = v)
                   => r.e = <<>> /\ getAutoGroupInvite(r.fl, id) = v
             /\ setAutoGroupInvite(r.fl, id, v).e = <<>>
    /\ \A id \in Keys, v \in -1..1 : setFriendCircleID(friendLst, id, v).e = <<>>
    /\ \A id \in Keys, v \in Times : setFriendActivity(friendLst, id, v).e = <<>>
    /\ \A a \in Addresses : updateFriendAddress(friendLst, a).e = <<>>
    /\ \A id \in ValidCircleIds :
          /\ \A name \in CircleNames : setCircleName(circleLst, id, name).e = <<>>
          /\ \A v \in BoolVals : setCircleExpanded(circleLst, id, v).e = <<>>

\* setWidgetData("splitter", "a") has just been called on a store that held
\* that blob already, and emitted nothing
C9_Witness ==
    /\ ret = Ret("setWidgetData", Void)
    /\ "splitter" \in DOMAIN widgetSettings
    /\ widgetSettings["splitter"] = "a"
    /\ emitted = <<>>

\* C10, as the spec states it: every setter call that changes a stored
\* property emits exactly one change notification, the one of the changed
\* property, carrying the new value.  Each conjunct is one setter: a step
\* that is the call set(v) on a store whose getter returned another value
\* emits one signal with v, and for the plain setters a signal that is not
\* the notification of another property.
C10_ChangeNotifiesOwnProperty ==
    [][/\ \A s \in PlainSetters : \A v \in Vals(s) :
             (SetPlain(s, v) /\ getPlain(prefs, s) # v)
                => /\ Len(emitted') = 1
                   /\ emitted'[1][2] = v
                   /\ ReportsField(emitted'[1][1]) \subseteq {s.field}
       /\ \A v \in AwayVals :
             (SetAutoAwayTime(v) /\ getAutoAwayTime(prefs') # getAutoAwayTime(prefs))
                => emitted' = <<Sig("autoAwayTimeChanged", getAutoAwayTime(prefs'))>>
       /\ \A info \in InfoVals :
             (SetToxmeInfo(info) /\ getToxmeInfo(prefs') # getToxmeInfo(prefs))
                => emitted' = <<Sig("toxmeInfoChanged", info)>>
       /\ \A pass \in StrVals :
             (SetToxmePass(pass) /\ getToxmePass(prefs) # pass)
                => emitted' = <<Sig("toxmePassChanged", pass)>>
       /\ \A v \in BoolVals :
             (SetMakeToxPortable(settingsThread, v) /\ getMakeToxPortable(prefs) # v)
                => emitted' = <<Sig("makeToxPortableChanged", v)>>
       /\ \A v \in BoolVals :
             (SetAutorun(v) /\ autorun' # autorun)
                => emitted' = <<Sig("autorunChanged", v)>>
       /\ \A n \in WidgetNames, data \in StrVals :
             (SetWidgetData(n, data) /\ widgetSettings' # widgetSettings)
                => emitted' = <<Sig("widgetDataChanged", n)>>
       /\ \A id \in Keys, v \in StrVals :
             /\ (SetFriendAlias(id, v) /\ getFriendAlias(friendLst, id) # v)
                   => Len(emitted') = 1
             /\ (SetAutoAcceptDir(id, v) /\ getAutoAcceptDir(friendLst, id) # v)
                   => emitted' = <<Sig("autoAcceptDirChanged", <<id, v>>)>>
             /\ (SetContactNote(id, v) /\ getContactNote(friendLst, id) # v)
                   => emitted' = <<Sig("contactNoteChanged", <<id, v>>)>>
       /\ \A id \in Keys, v \in -1..1 :
             (SetFriendCircleID(id, v) /\ getFriendCircleID(friendLst, id) # v)
                => Len(emitted') = 1
       /\ \A id \in ValidCircleIds, name \in CircleNames :
             (SetCircleName(settingsThread, id, name)
                 /\ getCircleName(circleLst, id) # name)
                => Len(emitted') = 1]_vars


(***************************************************************************)
(* The toxme address.                                                      *)
(***************************************************************************)
\* info is two parts with one "@" between them
TwoParts(info) ==
    \E i \in 1..Len(info) :
        /\ info[i] = "@"
        /\ \A j \in (1..Len(info)) \ {i} : info[j] # "@"

\* C11: setToxmeInfo(s) with a string that is not exactly two "@"-delimited
\* parts leaves the stored toxme info (and every other field) as it was and
\* emits nothing; a two-part string that differs from the stored value is
\* stored and toxmeInfoChanged is emitted with it.
C11_ToxmeInfoValidated ==
    \A info \in InfoVals :
        LET r == setToxmeInfo(prefs, info)
        IN /\ ~TwoParts(info) => r.p = prefs /\ r.e = <<>>
           /\ TwoParts(info) /\ info # getToxmeInfo(prefs)
                 => /\ getToxmeInfo(r.p) = info
                    /\ r.e = <<Sig("toxmeInfoChanged", info)>>

\* a two-part string was stored and notified; from this state the strings of
\* one and of three parts are offered to the setter
C11_Witness ==
    /\ ret = Ret("setToxmeInfo", Void)
    /\ getToxmeInfo(prefs) = <<"n", "@", "s">>
    /\ emitted = <<Sig("toxmeInfoChanged", <<"n", "@", "s">>)>>
    /\ \E info \in InfoVals : ~TwoParts(info) /\ info # getToxmeInfo(prefs)


(***************************************************************************)
(* Loading.  A file's content is what the save that wrote it stored: the   *)
(* global file holds the global fields and the widget blobs, a personal    *)
(* file the three collections and the personal fields.  A reader asks for  *)
(* each key with a default, as QSettings::value does.                      *)
(***************************************************************************)
\* the content of a file that does not exist, or of a group a file lacks
NoContent == EmptyMap

\* QSettings::value(key, default) on the group c
Value(c, key, default) == IF key \in DOMAIN c THEN c[key] ELSE default

\* the content at path, NoContent for a missing file
ReadFile(fs, path) == IF FileExists(fs, path) THEN fs[path] ELSE NoContent

\* ICoreSettings::ProxyType: ptNone, ptSOCKS5, ptHTTP
ProxyTypes == {0, 1, 2}

\* a repair that returns what it is given
fixInvalidProxyType_NoRepair(proxyType) == proxyType

\* Settings::fixInvalidProxyType
fixInvalidProxyType(proxyType) == IF proxyType \in ProxyTypes THEN proxyType ELSE 0

\* Settings::isToxPortable: the flag of the settings file next to the executable
isToxPortable(fs) ==
    LET localSettingsPath == <<AppDir, globalSettingsFile>>
    IN IF ~FileExists(fs, localSettingsPath)
       THEN FALSE
       ELSE Value(Value(fs[localSettingsPath], "prefs", NoContent), "makeToxPortable",
                  FALSE)

\* QFile::exists(smileyPack): the bundled pack is the one installed
SmileyPackExists(pack) == pack = DefaultPrefs.smileyPack

\* loadGlobal without the test of the loaded flag
loadGlobal_NoLoadedTest(fs, ld, p, ws) ==
    LET p1 == [p EXCEPT !.makeToxPortable = isToxPortable(fs)]
        c == ReadFile(fs, GlobalPath(p1))
        g == Value(c, "prefs", NoContent)
        val(f) == Value(g, f, DefaultPrefs[f])
        name == IF p.currentProfile = "" THEN val("currentProfile") ELSE p.currentProfile
        w == Value(c, "widgets", NoContent)
    IN [p |-> [f \in PrefFields |->
                 CASE f = "currentProfile" -> name
                   [] f = "currentProfileId" ->
                        IF p.currentProfile = "" THEN makeProfileId(name)
                        ELSE p.currentProfileId
                   [] f = "smileyPack" ->
                        IF SmileyPackExists(val(f)) THEN val(f) ELSE DefaultPrefs[f]
                   [] f = "style" -> IF val(f) = "" THEN DefaultPrefs[f] ELSE val(f)
                   [] f = "camVideoFPS" -> val(f) % 65536
                   [] f \in GlobalFields
                        \ {"currentProfile", "smileyPack", "style", "camVideoFPS"} -> val(f)
                   [] OTHER -> p[f]],
        ws |-> [n \in (DOMAIN ws) \cup (DOMAIN w) |->
                  IF n \in DOMAIN w THEN w[n] ELSE ws[n]],
        loaded |-> TRUE]

\* Settings::loadGlobal: the fields, the widget blobs and the flag after the call
loadGlobal(fs, ld, p, ws) ==
    IF ld THEN [p |-> p, ws |-> ws, loaded |-> ld]
    ELSE loadGlobal_NoLoadedTest(fs, ld, p, ws)

\* LoadFriend that never reads the activity
LoadFriend_NoActivity(rec, logging) ==
    [NewFriendProp(rec.addr) EXCEPT
        !.alias = rec.alias, !.note = rec.note, !.autoAcceptDir = rec.autoAcceptDir,
        !.autoAcceptCall = rec.autoAcceptCall, !.autoGroupInvite = rec.autoGroupInvite,
        !.circleID = rec.circle]

\* one element of the "Friend" array as loadPersonal reads it; the activity is
\* read only with logging enabled
LoadFriend(rec, logging) ==
    [NewFriendProp(rec.addr) EXCEPT
        !.alias = rec.alias, !.note = rec.note, !.autoAcceptDir = rec.autoAcceptDir,
        !.autoAcceptCall = rec.autoAcceptCall, !.autoGroupInvite = rec.autoGroupInvite,
        !.circleID = rec.circle,
        !.activity = IF logging /\ rec.activity # <<>> THEN rec.activity[1] ELSE NullTime]

\* Settings::loadPersonal: the personal fields and the collections after the
\* call.  The file of the profile is read if it exists, else the global file;
\* the address and the port of the proxy default to the values held before.
loadPersonal(fs, p, profileName) ==
    LET tmp == PersonalPath(p, profileName)
        filePath == IF FileExists(fs, tmp) THEN tmp ELSE GlobalPath(p)
        c == ReadFile(fs, filePath)
        g == Value(c, "prefs", NoContent)
        val(f) == Value(g, f, DefaultPrefs[f])
        logging == val("enableLogging")
        recs == Value(c, "friends", {})
    IN [p |-> [f \in PrefFields |->
                 CASE f = "proxyType" -> fixInvalidProxyType(val(f))
                   [] f = "proxyAddr" -> Value(g, f, p.proxyAddr)
                   [] f = "proxyPort" -> Value(g, f, p.proxyPort) % 65536
                   [] f \in PersonalFields \ {"proxyType", "proxyAddr", "proxyPort"} ->
                        val(f)
                   [] OTHER -> p[f]],
        fl |-> [k \in {ToxIdPublicKey(rec.addr) : rec \in recs} |->
                  LoadFriend(CHOOSE rec \in recs : ToxIdPublicKey(rec.addr) = k, logging)],
        reqs |-> Value(c, "requests", <<>>),
        circles |-> Value(c, "circles", <<>>)]

\* Settings::resetToDefault: the flag and the files after the call
resetToDefault(fs, ld, p, prof) ==
    [loaded |-> FALSE, files |-> RemoveFile(fs, PersonalPath(p, prof))]

\* Settings::createPersonal: QSettings opens the file at the path and sets the
\* size of its "Friend" array to 0; other keys of an existing file stay
createPersonal(fs, p, basename) ==
    LET path == PersonalPath(p, basename)
        c == ReadFile(fs, path)
    IN WriteFile(fs, path,
                 [k \in (DOMAIN c) \cup {"friends"} |-> IF k = "friends" THEN {} ELSE c[k]])

\* Settings::addCircle: the list after the append
addCircle(circles, name) ==
    Append(circles, [name |-> IF name = "" THEN GeneratedCircleName(Len(circles) + 1)
                              ELSE name,
                     expanded |-> FALSE])

\* The settings thread is inside a queued save: it holds bigLock, has found
\* `loaded' set and has yet to write.  The head of the queue then is
\* <<"write", save, profile>>.
Busy(q) == q # <<>> /\ Head(q)[1] = "write"

\* the write of the save in progress
finishSave(msg, fs, p, ws, fl, reqs, circles) ==
    IF msg[2] = "saveGlobal"
    THEN saveGlobalNow(fs, TRUE, p, ws)
    ELSE savePersonalNow(fs, TRUE, p, fl, reqs, circles, msg[3])

\* an event loop that runs the oldest queued call and drops the others
Drain_OldestOnly(q, fs, ld, p, ws, fl, reqs, circles) ==
    IF q = <<>> THEN fs
    ELSE CASE Head(q)[1] = "write" ->
                finishSave(Head(q), fs, p, ws, fl, reqs, circles)
           [] Head(q)[1] = "saveGlobal" -> saveGlobalNow(fs, ld, p, ws)
           [] OTHER ->
                savePersonalNow(fs, ld, p, fl, reqs, circles, Head(q)[2])

\* the settings thread runs every queued call, oldest first: the files after it
RECURSIVE Drain(_, _, _, _, _, _, _, _)
Drain(q, fs, ld, p, ws, fl, reqs, circles) ==
    IF q = <<>> THEN fs
    ELSE LET msg == Head(q)
             after == CASE msg[1] = "write" ->
                             finishSave(msg, fs, p, ws, fl, reqs, circles)
                        [] msg[1] = "saveGlobal" -> saveGlobalNow(fs, ld, p, ws)
                        [] OTHER ->
                             savePersonalNow(fs, ld, p, fl, reqs, circles, msg[2])
         IN Drain(Tail(q), after, ld, p, ws, fl, reqs, circles)

(***************************************************************************)
(* The store with its callers' threads.  Each call is made on a thread t;  *)
(* the code of a handler runs on the thread that calls it, and the calls   *)
(* that saveGlobal and savePersonal queue run on the settings thread.      *)
(* A handler that takes bigLock waits while the settings thread is inside  *)
(* a save; resetToDefault takes no lock, and a save-family call on another *)
(* thread queues before it would take the lock.  A call on the settings    *)
(* thread is made when that thread is not inside a save.                   *)
(***************************************************************************)
StoreEnv == UNCHANGED <<autorun, platformExt, profile, lifecycle>>

\* a call that takes bigLock first thing, on any thread
Locked(t) == ~Busy(queue)
\* a call that runs without the lock on thread t
Unlocked(t) == t = settingsThread => ~Busy(queue)

LoadGlobal(t) ==
    /\ ret' = Ret("loadGlobal", Void)
    /\ currentThread' = t
    /\ Locked(t)
    /\ LET r == loadGlobal(files, loaded, prefs, widgetSettings)
       IN /\ prefs' = r.p
          /\ widgetSettings' = r.ws
          /\ loaded' = r.loaded
    /\ emitted' = <<>>
    /\ UNCHANGED <<friendLst, friendRequests, circleLst, queue, files>>
    /\ StoreEnv

LoadPersonal(t, profileName) ==
    /\ ret' = Ret("loadPersonal", Void)
    /\ currentThread' = t
    /\ Locked(t)
    /\ LET r == loadPersonal(files, prefs, profileName)
       IN /\ prefs' = r.p
          /\ friendLst' = r.fl
          /\ friendRequests' = r.reqs
          /\ circleLst' = r.circles
    /\ emitted' = <<>>
    /\ UNCHANGED <<widgetSettings, loaded, queue, files>>
    /\ StoreEnv

\* Settings::updateProfileData
UpdateProfileData(t, prof) ==
    /\ ret' = Ret("updateProfileData", Void)
    /\ currentThread' = t
    /\ Locked(t)
    /\ IF prof = NoProfile
       THEN /\ emitted' = <<>>
            /\ UNCHANGED <<prefs, friendLst, friendRequests, circleLst, queue, files>>
       ELSE LET a == setCurrentProfile(prefs, prof)
                after == saveGlobal(t, queue, files, loaded, a.p, widgetSettings)
                r == loadPersonal(after.files, a.p, prof)
            IN /\ prefs' = r.p
               /\ friendLst' = r.fl
               /\ friendRequests' = r.reqs
               /\ circleLst' = r.circles
               /\ queue' = after.queue
               /\ files' = after.files
               /\ emitted' = a.e
    /\ UNCHANGED <<widgetSettings, loaded>>
    /\ StoreEnv

\* Settings::resetToDefault dereferences Nexus::getProfile(): a profile is active
ResetToDefault(t) ==
    /\ profile # NoProfile
    /\ ret' = Ret("resetToDefault", Void)
    /\ currentThread' = t
    /\ Unlocked(t)
    /\ LET r == resetToDefault(files, loaded, prefs, profile)
       IN /\ loaded' = r.loaded
          /\ files' = r.files
    /\ emitted' = <<>>
    /\ UNCHANGED <<prefs, widgetSettings, friendLst, friendRequests, circleLst, queue>>
    /\ StoreEnv

SaveGlobal(t) ==
    /\ ret' = Ret("saveGlobal", Void)
    /\ currentThread' = t
    /\ Unlocked(t)
    /\ LET after == saveGlobal(t, queue, files, loaded, prefs, widgetSettings)
       IN /\ queue' = after.queue
          /\ files' = after.files
    /\ emitted' = <<>>
    /\ UNCHANGED <<prefs, widgetSettings, friendLst, friendRequests, circleLst, loaded>>
    /\ StoreEnv

\* Settings::savePersonal() and its overload that takes the Profile
SavePersonal(t) ==
    /\ ret' = Ret("savePersonal", Void)
    /\ currentThread' = t
    /\ Unlocked(t)
    /\ LET after == savePersonal(t, queue, files, loaded, prefs, friendLst,
                                 friendRequests, circleLst)
       IN /\ queue' = after.queue
          /\ files' = after.files
    /\ emitted' = <<>>
    /\ UNCHANGED <<prefs, widgetSettings, friendLst, friendRequests, circleLst, loaded>>
    /\ StoreEnv

\* Settings::savePersonal(QString, const ToxEncrypt*): no test of the thread
SavePersonalAs(t, profileName) ==
    /\ ret' = Ret("savePersonal(name, key)", Void)
    /\ currentThread' = t
    /\ Locked(t)
    /\ files' = savePersonalNow(files, loaded, prefs, friendLst, friendRequests,
                                circleLst, profileName)
    /\ emitted' = <<>>
    /\ UNCHANGED <<prefs, widgetSettings, friendLst, friendRequests, circleLst, loaded,
                   queue>>
    /\ StoreEnv

CreatePersonal(t, basename) ==
    /\ ret' = Ret("createPersonal", Void)
    /\ currentThread' = t
    /\ Locked(t)
    /\ files' = createPersonal(files, prefs, basename)
    /\ emitted' = <<>>
    /\ UNCHANGED <<prefs, widgetSettings, friendLst, friendRequests, circleLst, loaded,
                   queue>>
    /\ StoreEnv

\* Settings::sync: on another thread the call is queued behind the pending
\* calls and the caller waits for it; on the settings thread processEvents()
\* runs the pending calls
Sync(t) ==
    /\ ret' = Ret("sync", Void)
    /\ currentThread' = t
    /\ Unlocked(t)
    /\ files' = Drain(queue, files, loaded, prefs, widgetSettings, friendLst,
                      friendRequests, circleLst)
    /\ queue' = <<>>
    /\ emitted' = <<>>
    /\ UNCHANGED <<prefs, widgetSettings, friendLst, friendRequests, circleLst, loaded>>
    /\ StoreEnv

\* an event loop that takes the newest queued save
BeginQueued_Newest ==
    /\ queue # <<>>
    /\ ~Busy(queue)
    /\ ret' = Ret("queued", queue[Len(queue)][1])
    /\ currentThread' = settingsThread
    /\ queue' = IF loaded
                THEN <<<<"write", queue[Len(queue)][1], queue[Len(queue)][2]>>>>
                     \o SubSeq(queue, 1, Len(queue) - 1)
                ELSE SubSeq(queue, 1, Len(queue) - 1)
    /\ emitted' = <<>>
    /\ UNCHANGED <<prefs, widgetSettings, friendLst, friendRequests, circleLst, loaded,
                   files>>
    /\ StoreEnv

\* the settings thread's event loop takes the oldest queued save: the save
\* takes bigLock and returns if the store is not loaded
BeginQueued ==
    /\ queue # <<>>
    /\ ~Busy(queue)
    /\ ret' = Ret("queued", Head(queue)[1])
    /\ currentThread' = settingsThread
    /\ queue' = IF loaded
                THEN <<<<"write", Head(queue)[1], Head(queue)[2]>>>> \o Tail(queue)
                ELSE Tail(queue)
    /\ emitted' = <<>>
    /\ UNCHANGED <<prefs, widgetSettings, friendLst, friendRequests, circleLst, loaded,
                   files>>
    /\ StoreEnv

\* the save in progress writes its file and releases the lock
FinishQueued ==
    /\ Busy(queue)
    /\ ret' = Ret("written", Head(queue)[2])
    /\ currentThread' = settingsThread
    /\ files' = finishSave(Head(queue), files, prefs, widgetSettings, friendLst,
                           friendRequests, circleLst)
    /\ queue' = Tail(queue)
    /\ emitted' = <<>>
    /\ UNCHANGED <<prefs, widgetSettings, friendLst, friendRequests, circleLst, loaded>>
    /\ StoreEnv

\* a setter of PlainSetters called on thread t
SetPlainOn(t, s, v) ==
    /\ ret' = Ret(s.setter, Void)
    /\ currentThread' = t
    /\ Locked(t)
    /\ LET r == setPlain(prefs, s, v)
       IN /\ prefs' = r.p
          /\ emitted' = r.e
    /\ UNCHANGED <<widgetSettings, friendLst, friendRequests, circleLst, loaded, queue,
                   files>>
    /\ StoreEnv

\* the getter of a setter of PlainSetters called on thread t
GetPlainOn(t, s) ==
    /\ ret' = Ret(s.field, getPlain(prefs, s))
    /\ currentThread' = t
    /\ Locked(t)
    /\ emitted' = <<>>
    /\ UNCHANGED <<prefs, widgetSettings, friendLst, friendRequests, circleLst, loaded,
                   queue, files>>
    /\ StoreEnv

SetMakeToxPortableOn(t, newValue) ==
    /\ ret' = Ret("setMakeToxPortable", Void)
    /\ currentThread' = t
    /\ Locked(t)
    /\ LET r == setMakeToxPortable(t, queue, files, loaded, prefs, widgetSettings,
                                   newValue)
       IN /\ prefs' = r.p
          /\ queue' = r.queue
          /\ files' = r.files
          /\ emitted' = r.e
    /\ UNCHANGED <<widgetSettings, friendLst, friendRequests, circleLst, loaded>>
    /\ StoreEnv

AddCircleOn(t, name) ==
    /\ Len(circleLst) < MaxCircles
    /\ ret' = Ret("addCircle", Len(circleLst))
    /\ currentThread' = t
    /\ Locked(t)
    /\ circleLst' = addCircle(circleLst, name)
    /\ LET after == savePersonal(t, queue, files, loaded, prefs, friendLst,
                                 friendRequests, circleLst')
       IN /\ queue' = after.queue
          /\ files' = after.files
    /\ emitted' = <<>>
    /\ UNCHANGED <<prefs, widgetSettings, friendLst, friendRequests, loaded>>
    /\ StoreEnv

(***************************************************************************)
(* The store under loads, saves, resets and a few mutators, called on      *)
(* either thread.                                                          *)
(***************************************************************************)
StoreNames == {"alice"}

\* how many fields and entries of the store differ from the fresh store
StoreEdits ==
    Cardinality(PrefEdits(prefs) \ {"currentProfile", "currentProfileId"})
    + Cardinality(FriendEdits(friendLst))
    + Len(circleLst)

\* a call that queues is made when the queue has room, a mutator when the
\* store it leaves is within the bound
NextStore ==
    \/ \E t \in Threads : LoadGlobal(t)
    \/ \E t \in Threads, name \in StoreNames : LoadPersonal(t, name)
    \/ \E t \in Threads, prof \in {NoProfile} \cup Profiles :
          UpdateProfileData(t, prof) /\ Len(queue') <= MaxQueue
    \/ \E t \in Threads : ResetToDefault(t)
    \/ \E t \in Threads : SaveGlobal(t) /\ Len(queue') <= MaxQueue
    \/ \E t \in Threads : SavePersonal(t) /\ Len(queue') <= MaxQueue
    \/ \E t \in Threads, name \in StoreNames : SavePersonalAs(t, name)
    \/ \E t \in Threads, name \in StoreNames : CreatePersonal(t, name)
    \/ \E t \in Threads : Sync(t)
    \/ BeginQueued
    \/ FinishQueued
    \/ \E t \in Threads, v \in BoolVals :
          SetPlainOn(t, Row("setEnableIPv6"), v) /\ StoreEdits' <= MaxStoreEdits
    \/ \E t \in Threads : GetPlainOn(t, Row("setEnableIPv6"))
    \/ \E t \in Threads, v \in BoolVals :
          /\ SetMakeToxPortableOn(t, v)
          /\ StoreEdits' <= MaxStoreEdits
          /\ Len(queue') <= MaxQueue
    \/ \E t \in Threads :
          /\ AddCircleOn(t, "")
          /\ StoreEdits' <= MaxStoreEdits
          /\ Len(queue') <= MaxQueue

\* a profile is active
InitStore == Init /\ profile \in Profiles /\ ~platformExt

SpecStore == InitStore /\ [][NextStore]_vars


\* the handlers that save, and the steps of the settings thread that run a
\* queued save
SaveOps == {"saveGlobal", "savePersonal", "savePersonal(name, key)", "queued"}

\* C12: while the store is not loaded, saveGlobal, every savePersonal variant
\* and a queued save the settings thread dequeues (posted while the store was
\* loaded or not) return normally and leave every file as it was: none
\* written, none cleared.
C12_UnloadedSaveWritesNothing ==
    [][(~loaded /\ ret'[1] \in SaveOps) => files' = files]_vars

\* the settings thread ran a queued savePersonal on the unloaded store, on
\* which a circle waits to be saved, and no personal file exists
C12_Witness ==
    /\ ~loaded
    /\ ret = Ret("queued", "savePersonal")
    /\ circleLst # <<>>
    /\ \A name \in StoreNames : ~FileExists(files, PersonalPath(prefs, name))


\* the setters and collection mutators of SpecStore
MutatorOps == {"setEnableIPv6", "setMakeToxPortable", "addCircle"}

\* C13: a setter or collection mutator called while the store is not loaded
\* changes no field and no collection and touches no file.
C13_UnloadedMutationIsNoOp ==
    [][(~loaded /\ ret'[1] \in MutatorOps)
          => UNCHANGED <<prefs, widgetSettings, friendLst, friendRequests, circleLst,
                         files>>]_vars


PersonalOps == {"loadPersonal", "resetToDefault", "createPersonal", "savePersonal",
                "savePersonal(name, key)"}

\* C15: each tier has its own load state.  A completed loadPersonal leaves the
\* personal tier loaded, so the savePersonal(name, key) that follows it writes
\* the personal file; and no operation of the personal tier changes whether
\* the global tier is loaded (saveGlobal writes exactly when `loaded' is set).
C15_TiersLoadSeparately ==
    [][/\ (ret = Ret("loadPersonal", Void) /\ ret'[1] = "savePersonal(name, key)")
          => \E name \in StoreNames : FileExists(files', PersonalPath(prefs, name))
       /\ ret'[1] \in PersonalOps
          => loaded' = loaded]_vars


\* C16: loadGlobal() called on a loaded store returns at once: it changes no
\* field, no widget blob, no collection and no file, and its result does not
\* depend on what the files hold, so values that setters stored since the
\* first load stay.
C16_LoadGlobalIdempotent ==
    [][/\ loaded => /\ loadGlobal(files, loaded, prefs, widgetSettings)
                       = [p |-> prefs, ws |-> widgetSettings, loaded |-> TRUE]
                    /\ loadGlobal(EmptyMap, loaded, prefs, widgetSettings)
                       = loadGlobal(files, loaded, prefs, widgetSettings)
       /\ (loaded /\ ret'[1] = "loadGlobal")
          => /\ UNCHANGED <<prefs, widgetSettings, friendLst, friendRequests, circleLst,
                            loaded, queue, files>>
             /\ emitted' = <<>>]_vars

\* loadGlobal returned on the loaded store and enableIPv6 still holds the
\* value a setter gave it: no settings file exists, so a load that had read
\* would have stored the default
C16_Witness ==
    /\ ret = Ret("loadGlobal", Void)
    /\ loaded
    /\ prefs.enableIPv6 # DefaultPrefs.enableIPv6
    /\ files = EmptyMap


(***************************************************************************)
(* The personal tier: the file of a profile is written, created and read,  *)
(* and setters change what the store holds in between.  The calls are made *)
(* on the settings thread of a loaded store.                               *)
(***************************************************************************)
PersonalNames == {"alice", "bob"}

PersonalEdits ==
    Cardinality(PrefEdits(prefs))
    + Cardinality(FriendEdits(friendLst))
    + Len(circleLst)
    + Len(friendRequests)

NextPersonal ==
    \/ \E name \in PersonalNames : LoadPersonal(settingsThread, name)
    \/ \E name \in PersonalNames : SavePersonalAs(settingsThread, name)
    \/ \E name \in PersonalNames : CreatePersonal(settingsThread, name)
    \/ \E v \in StrVals :
          SetPlain(Row("setProxyAddr"), v) /\ PersonalEdits' <= MaxPersonalEdits
    \/ \E v \in BoolVals :
          SetPlain(Row("setEnableLogging"), v) /\ PersonalEdits' <= MaxPersonalEdits
    \/ \E id \in CircleKeys, activity \in Times :
          SetFriendActivity(id, activity) /\ PersonalEdits' <= MaxPersonalEdits
    \/ AddCircle(settingsThread, "") /\ PersonalEdits' <= MaxPersonalEdits
    \/ AddFriendRequest("A", "hi") /\ PersonalEdits' <= MaxPersonalEdits

InitPersonal == Init /\ profile \in Profiles /\ ~platformExt

SpecPersonal == InitPersonal /\ [][NextPersonal]_vars


\* the file loadPersonal(profileName, key) reads, and its personal fields
LoadedFile(fs, p, profileName) ==
    IF FileExists(fs, PersonalPath(p, profileName))
    THEN fs[PersonalPath(p, profileName)]
    ELSE ReadFile(fs, GlobalPath(p))

\* C17: loadPersonal replaces the personal state.  After it the requests and
\* the circles are those of the file, the friends are exactly the file's
\* entries, and every personal preference field holds the file's value (an
\* invalid proxy type repaired to none) or, if the file has none, the fixed
\* default of the field - never the value held before the call.
C17_LoadPersonalReplaces ==
    \A name \in PersonalNames :
        LET c == LoadedFile(files, prefs, name)
            g == Value(c, "prefs", NoContent)
            r == loadPersonal(files, prefs, name)
        IN /\ r.reqs = Value(c, "requests", <<>>)
           /\ r.circles = Value(c, "circles", <<>>)
           /\ {FriendRecord(r.p, r.fl[k]) : k \in DOMAIN r.fl} = Value(c, "friends", {})
           /\ \A f \in PersonalFields :
                 r.p[f] = IF f \notin DOMAIN g THEN DefaultPrefs[f]
                          ELSE IF f = "proxyType" THEN fixInvalidProxyType(g[f])
                          ELSE g[f]

\* the friends as the round trip gives them back: the activity is kept only
\* with logging enabled
WithoutUnloggedActivity(fl, logging) ==
    [k \in DOMAIN fl |-> [fl[k] EXCEPT !.activity = IF logging THEN @ ELSE NullTime]]

AccessorOps == MutatorOps \cup {"enableIPv6"}

\* C19: every setter, getter and collection mutator runs on the settings
\* thread, whichever thread calls it.
C19_AccessorsRunOnWorker ==
    ret[1] \in AccessorOps => currentThread = settingsThread

\* the handlers that read, write or probe a file in every call
IOOps == {"loadPersonal", "createPersonal", "resetToDefault"}

\* C20: no load, save or file deletion runs on a caller's thread.  A
\* loadPersonal, createPersonal or resetToDefault, and a loadGlobal that
\* loads, runs on the settings thread; and every step that writes or deletes
\* a file (savePersonal(name, key), setMakeToxPortable and updateProfileData
\* among them) is a step of the settings thread or the sync() a caller waits
\* in.
C20_NoIOOnCallerThread ==
    [][/\ (ret'[1] \in IOOps \/ (ret'[1] = "loadGlobal" /\ ~loaded))
          => currentThread' = settingsThread
       /\ files' # files => (currentThread' = settingsThread \/ ret'[1] = "sync")]_vars

(***************************************************************************)
(* The event queue of the settings thread under the save-family calls,     *)
(* sync and two mutators, with and without an active profile.              *)
(***************************************************************************)
\* how many fields and entries of the store differ from the fresh store
QueueEdits ==
    Cardinality(PrefEdits(prefs) \ {"currentProfile", "currentProfileId"})
    + Len(circleLst)

NextQueue ==
    \/ \E t \in Threads : SaveGlobal(t) /\ Len(queue') <= MaxPosted
    \/ \E t \in Threads : SavePersonal(t) /\ Len(queue') <= MaxPosted
    \/ \E t \in Threads : Sync(t)
    \/ BeginQueued
    \/ FinishQueued
    \/ \E t \in Threads, v \in BoolVals :
          SetPlainOn(t, Row("setEnableIPv6"), v) /\ QueueEdits' <= MaxStoreEdits
    \/ \E t \in Threads :
          /\ AddCircleOn(t, "")
          /\ QueueEdits' <= MaxStoreEdits
          /\ Len(queue') <= MaxPosted
    \/ \E t \in Threads : UpdateProfileData(t, "bob") /\ Len(queue') <= MaxPosted

InitQueue == Init /\ ~platformExt

SpecQueue == InitQueue /\ [][NextQueue]_vars

\* the save-family calls
SaveFamily == {"saveGlobal", "savePersonal"}

\* the file systems a save-family call run on the settings thread may leave
SavedNow ==
    {saveGlobalNow(files, loaded, prefs, widgetSettings)}
    \cup {savePersonalNow(files, loaded, prefs, friendLst, friendRequests, circleLst,
                          name) : name \in Profiles}

\* C21 as stated: a save-family call on another thread than the settings
\* thread queues exactly one message and writes nothing; every write of a
\* file is made on the settings thread (or inside the sync() a caller waits
\* in); a save-family call on the settings thread queues nothing and has
\* written before it returns.
C21_SavePostsOneMessage ==
    [][/\ (ret'[1] \in SaveFamily /\ currentThread' # settingsThread)
          => /\ files' = files
             /\ Len(queue') = Len(queue) + 1
             /\ SubSeq(queue', 1, Len(queue)) = queue
       /\ files' # files => (currentThread' = settingsThread \/ ret'[1] = "sync")
       /\ (ret'[1] \in SaveFamily /\ currentThread' = settingsThread)
          => /\ queue' = queue
             /\ files' \in SavedNow]_vars

\* C21, for a save of a profile that exists: saveGlobal and, with an active
\* profile, savePersonal() and savePersonal(profile) queue exactly one message
\* on another thread and write nothing; savePersonal without a profile queues
\* nothing and writes nothing on any thread.
C21_SaveOfProfilePostsOneMessage ==
    [][/\ (ret'[1] \in SaveFamily /\ currentThread' # settingsThread)
          => /\ files' = files
             /\ IF ret'[1] = "savePersonal" /\ profile = NoProfile
                THEN queue' = queue
                ELSE /\ Len(queue') = Len(queue) + 1
                     /\ SubSeq(queue', 1, Len(queue)) = queue
                     /\ queue'[Len(queue')][1] = ret'[1]
       /\ files' # files => (currentThread' = settingsThread \/ ret'[1] = "sync")
       /\ (ret'[1] \in SaveFamily /\ currentThread' = settingsThread)
          => /\ queue' = queue
             /\ IF ret'[1] = "savePersonal" /\ profile = NoProfile
                THEN files' = files
                ELSE files' \in SavedNow]_vars

\* a savePersonal() called on the main thread with an active profile waits in
\* the queue behind an earlier message, and no file is written yet
C21_Witness ==
    /\ ret = Ret("savePersonal", Void)
    /\ currentThread # settingsThread
    /\ profile # NoProfile
    /\ Len(queue) = 2
    /\ queue[2] = <<"savePersonal", profile>>
    /\ files = EmptyMap

(***************************************************************************)
(* sync.                                                                   *)
(***************************************************************************)
\* the file a queued message saves to, and what a save of the store's present
\* state puts there
TargetPath(msg) ==
    CASE msg[1] = "write" ->
           IF msg[2] = "saveGlobal" THEN GlobalPath(prefs)
           ELSE PersonalPath(prefs, msg[3])
      [] msg[1] = "saveGlobal" -> GlobalPath(prefs)
      [] OTHER -> PersonalPath(prefs, msg[2])
TargetContent(msg) ==
    IF msg[1] = "saveGlobal" \/ (msg[1] = "write" /\ msg[2] = "saveGlobal")
    THEN GlobalContent(prefs, widgetSettings)
    ELSE PersonalContent(prefs, friendLst, friendRequests, circleLst)

Constructed(fs) ==
    LET r == loadGlobal(fs, FALSE, DefaultPrefs, EmptyMap)
    IN [p |-> r.p, ws |-> r.ws, loaded |-> r.loaded]

\* getInstance(), first part: the test of the pointer; a caller that finds an
\* instance returns it
GetInstanceTest(c) ==
    /\ pc[c] = "idle"
    /\ currentThread' = c
    /\ IF settings = NULL
       THEN /\ pc' = [pc EXCEPT ![c] = "new"]
            /\ ret' = Ret("getInstance:test", NULL)
       ELSE /\ pc' = pc
            /\ ret' = Ret("getInstance", settings)
    /\ emitted' = <<>>
    /\ UNCHANGED <<friendLst, friendRequests, circleLst, prefs, widgetSettings, autorun,
                   platformExt, loaded, profile, queue, files, settings, constructed,
                   workers>>

\* getInstance(), second part: settings = new Settings(), and the return
GetInstanceNew(c) ==
    /\ pc[c] = "new"
    /\ currentThread' = c
    /\ pc' = [pc EXCEPT ![c] = "idle"]
    /\ constructed' = constructed + 1
    /\ workers' = workers + 1
    /\ settings' = constructed + 1
    /\ ret' = Ret("getInstance", settings')
    /\ LET r == Constructed(files)
       IN /\ prefs' = r.p
          /\ widgetSettings' = r.ws
          /\ loaded' = r.loaded
    /\ friendLst' = EmptyMap
    /\ friendRequests' = <<>>
    /\ circleLst' = <<>>
    /\ queue' = <<>>
    /\ emitted' = <<>>
    /\ UNCHANGED <<autorun, platformExt, profile, files>>

\* a destructor that stops the thread without the sync()
destroyInstance_NoSync(q, fs, ld, p, ws, fl, reqs, circles, w) ==
    [files |-> fs, queue |-> <<>>, workers |-> w - 1]

\* Settings::destroyInstance with an instance: the files, the queue and the
\* running settings threads when it returns
destroyInstance(q, fs, ld, p, ws, fl, reqs, circles, w) ==
    [files |-> Drain(q, fs, ld, p, ws, fl, reqs, circles),
     queue |-> <<>>,
     workers |-> w - 1]

DestroyInstance(c) ==
    /\ ret' = Ret("destroyInstance", Void)
    /\ currentThread' = c
    /\ IF settings = NULL
       THEN UNCHANGED <<files, queue, workers>>
       ELSE LET r == destroyInstance(queue, files, loaded, prefs, widgetSettings,
                                     friendLst, friendRequests, circleLst, workers)
            IN /\ files' = r.files
               /\ queue' = r.queue
               /\ workers' = r.workers
    /\ settings' = NULL
    /\ constructed' = 0
    /\ emitted' = <<>>
    /\ UNCHANGED <<friendLst, friendRequests, circleLst, prefs, widgetSettings, autorun,
                   platformExt, loaded, profile, pc>>

\* the handlers are called on the instance, while there is one
NextLife ==
    \/ \E c \in Callers : GetInstanceTest(c)
    \/ \E c \in Callers : GetInstanceNew(c) /\ workers' <= MaxWorkers
    \/ \E c \in Callers : DestroyInstance(c)
    \/ \E t \in Threads : settings # NULL /\ SaveGlobal(t) /\ Len(queue') <= MaxPosted
    \/ \E t \in Threads : settings # NULL /\ SavePersonal(t) /\ Len(queue') <= MaxPosted
    \/ settings # NULL /\ BeginQueued
    \/ settings # NULL /\ FinishQueued
    \/ \E t \in Threads, v \in BoolVals :
          settings # NULL /\ SetPlainOn(t, Row("setEnableIPv6"), v)
    \/ \E t \in Threads : settings # NULL /\ ResetToDefault(t)

\* no instance yet
InitLife ==
    /\ friendLst = EmptyMap
    /\ friendRequests = <<>>
    /\ circleLst = <<>>
    /\ prefs = DefaultPrefs
    /\ widgetSettings = EmptyMap
    /\ autorun = FALSE
    /\ platformExt = FALSE
    /\ loaded = FALSE
    /\ profile \in Profiles
    /\ queue = <<>>
    /\ files = EmptyMap
    /\ emitted = <<>>
    /\ ret = Ret("main", Void)
    /\ currentThread = "main"
    /\ settings = NULL
    /\ pc = [c \in Callers |-> "idle"]
    /\ constructed = 0
    /\ workers = 0

SpecLife == InitLife /\ [][NextLife]_vars

\* C23: destroyInstance() on an instance returns with the queue empty and
\* every save that was queued run (its file holds the store's state, unless
\* the save found the store unloaded and returned), with the settings thread
\* finished and the pointer null.
C23_DestroyFlushes ==
    [][(ret'[1] = "destroyInstance" /\ settings # NULL)
       => /\ queue' = <<>>
          /\ \A i \in 1..Len(queue) :
                (loaded \/ queue[i][1] = "write")
                => /\ FileExists(files', TargetPath(queue[i]))
                   /\ files'[TargetPath(queue[i])] = TargetContent(queue[i])
          /\ \A i \in 1..Len(queue) :
                (~loaded /\ queue[i][1] # "write" /\ Len(queue) = 1)
                => files' = files
          /\ workers' = workers - 1
          /\ settings' = NULL]_vars

\* destroyInstance() has returned: no instance, no settings thread, an empty
\* queue, and the files hold a changed field and the profile's state
C23_Witness ==
    /\ ret = Ret("destroyInstance", Void)
    /\ settings = NULL
    /\ workers = 0
    /\ queue = <<>>
    /\ prefs.enableIPv6 # DefaultPrefs.enableIPv6
    /\ FileExists(files, GlobalPath(prefs))
    /\ files[GlobalPath(prefs)] = GlobalContent(prefs, widgetSettings)
    /\ FileExists(files, PersonalPath(prefs, profile))

\* C24: between two destroyInstance() calls at most one instance is
\* constructed and at most one settings thread runs, and a getInstance() that
\* returns, returns that instance.
C24_OneInstance ==
    /\ constructed <= 1
    /\ workers <= 1
    /\ ret[1] = "getInstance" => ret[2] = 1

(***************************************************************************)
(* The switch of the profile: updateProfileData on either thread, between  *)
(* saves of the personal state under two names.                            *)
(***************************************************************************)
ProfileEdits ==
    Cardinality(PrefEdits(prefs) \ {"currentProfile", "currentProfileId"})
    + Cardinality(FriendEdits(friendLst))
    + Len(circleLst)
    + Len(friendRequests)

NextProfile ==
    \/ \E t \in Threads, prof \in {NoProfile} \cup PersonalNames :
          UpdateProfileData(t, prof) /\ Len(queue') <= MaxQueue
    \/ \E name \in PersonalNames : SavePersonalAs(settingsThread, name)
    \/ \E t \in Threads : Sync(t)
    \/ BeginQueued
    \/ FinishQueued
    \/ ResetToDefault(settingsThread)
    \/ LoadGlobal(settingsThread)
    \/ \E id \in CircleKeys, alias \in StrVals :
          SetFriendAlias(id, alias) /\ ProfileEdits' <= MaxProfileEdits
    \/ AddCircle(settingsThread, "") /\ ProfileEdits' <= MaxProfileEdits
    \/ AddFriendRequest("A", "hi") /\ ProfileEdits' <= MaxProfileEdits

InitProfile == Init /\ profile \in Profiles /\ ~platformExt

SpecProfile == InitProfile /\ [][NextProfile]_vars

\* the content of the profile's own file; nothing if there is none
ProfileFile(fs, p, prof) ==
    IF FileExists(fs, PersonalPath(p, prof)) THEN fs[PersonalPath(p, prof)]
    ELSE NoContent

\* the files once the settings thread has run what is queued after the step
DrainedNext ==
    Drain(queue', files', loaded', prefs', widgetSettings', friendLst',
          friendRequests', circleLst')

\* what updateProfileData(prof) does to the memory: the current profile is
\* prof and the collections are those of prof's file; a null profile changes
\* nothing, queues nothing and touches no file
ProfileSwitched(prof) ==
    IF prof = NoProfile
    THEN /\ emitted' = <<>>
         /\ UNCHANGED <<prefs, widgetSettings, friendLst, friendRequests, circleLst,
                        loaded, queue, files>>
    ELSE LET c == ProfileFile(files, prefs, prof)
         IN /\ getCurrentProfile(prefs') = prof
            /\ friendRequests' = Value(c, "requests", <<>>)
            /\ circleLst' = Value(c, "circles", <<>>)
            /\ {[FriendRecord(prefs', friendLst'[k]) EXCEPT !.activity = <<>>] :
                    k \in DOMAIN friendLst'}
                 = {[rec EXCEPT !.activity = <<>>] : rec \in Value(c, "friends", {})}

HashedNames == {"", "alice", "bob"}

\* the upper and the lower half of a uint32_t, as numbers
Upper(w) == 256 * w[1] + w[2]
Lower(w) == 256 * w[3] + w[4]

\* C26: makeProfileId(name) is w0 ^ w1 ^ w2 ^ w3 for the four 32-bit words
\* w0..w3 of the digest of the name, on a host of either byte order (compared
\* half by half as numbers, each below 2^16); the id the store holds is the id
\* of the current profile's name, so a repeated call gives the id again.
C26_ProfileIdFoldsDigest ==
    /\ \A name \in HashedNames, littleEndian \in BOOLEAN :
          LET data == Md5(name)
              w(i) == Dword(data, i, littleEndian)
              id == makeProfileIdOn(littleEndian, name)
          IN /\ Upper(id) = Xor(Xor(Upper(w(0)), Upper(w(1))),
                                Xor(Upper(w(2)), Upper(w(3))))
             /\ Lower(id) = Xor(Xor(Lower(w(0)), Lower(w(1))),
                                Xor(Lower(w(2)), Lower(w(3))))
             /\ Upper(id) \in 0..65535 /\ Lower(id) \in 0..65535
    /\ getCurrentProfileId(prefs) = makeProfileId(getCurrentProfile(prefs))
    /\ makeProfileId("alice") = <<119, 142, 165, 82>>

\* the store holds the id of "bob" after a switch to that profile
C26_Witness ==
    /\ ret = Ret("updateProfileData", Void)
    /\ getCurrentProfile(prefs) = "bob"
    /\ getCurrentProfileId(prefs) = makeProfileId("bob")
    /\ emitted = <<Sig("currentProfileIdChanged", makeProfileId("bob"))>>

(***************************************************************************)
(* The auto-away time.                                                     *)
(***************************************************************************)
\* C27: setAutoAwayTime(n) with n < 0 does what setAutoAwayTime(10) does:
\* getAutoAwayTime() is 10 afterwards, and autoAwayTimeChanged(10) is emitted
\* if the stored value was not 10 and nothing otherwise; with n >= 0 the
\* stored value becomes n.
C27_NegativeAwayTimeIsTen ==
    \A n \in AwayVals :
        LET r == setAutoAwayTime(prefs, n)
        IN IF n < 0
           THEN /\ r = setAutoAwayTime(prefs, 10)
                /\ getAutoAwayTime(r.p) = 10
                /\ r.e = IF getAutoAwayTime(prefs) = 10 THEN <<>>
                         ELSE <<Sig("autoAwayTimeChanged", 10)>>
           ELSE getAutoAwayTime(r.p) = n

\* a setAutoAwayTime has brought the store back to 10 from another value and
\* announced it
C27_Witness ==
    /\ ret = Ret("setAutoAwayTime", Void)
    /\ getAutoAwayTime(prefs) = 10
    /\ emitted = <<Sig("autoAwayTimeChanged", 10)>>
    /\ \E n \in AwayVals : n < 0

(***************************************************************************)
(* The order of the queued saves.                                          *)
(***************************************************************************)
\* the save the settings thread has begun to run, as the queue shows it
Begun(msg) == <<"write", msg[1], msg[2]>>

\* C28: the queue is first in, first out.  A call adds its message behind the
\* messages that wait; the settings thread takes the oldest message and no
\* other, and sync() runs them all; and when a queued save writes, the file
\* holds the state the store has then, which includes every mutation made
\* before the save was posted and not overwritten since.
C28_PostOrder ==
    [][/\ \/ queue' = queue
          \/ \E kind \in SaveFamily, prof \in {NoProfile} \cup Profiles :
                queue' = Append(queue, <<kind, prof>>)
          \/ queue # <<>> /\ queue' = Tail(queue)
          \/ queue # <<>> /\ queue' = <<Begun(Head(queue))>> \o Tail(queue)
          \/ ret'[1] = "sync" /\ queue' = <<>>
       /\ ret'[1] = "queued" => ret'[2] = Head(queue)[1]
       /\ ret'[1] = "written"
          => /\ ret'[2] = Head(queue)[2]
             /\ queue' = Tail(queue)
             /\ files'[TargetPath(Head(queue))] = TargetContent(Head(queue))
             /\ <<prefs', widgetSettings', friendLst', friendRequests', circleLst'>>
                  = <<prefs, widgetSettings, friendLst, friendRequests, circleLst>>]_vars

\* the settings thread has written the global file with the changed field
\* while the savePersonal posted after the saveGlobal still waits
C28_Witness ==
    /\ ret = Ret("written", "saveGlobal")
    /\ Len(queue) = 1
    /\ queue[1][1] = "savePersonal"
    /\ prefs.enableIPv6 # DefaultPrefs.enableIPv6
    /\ files[GlobalPath(prefs)].prefs.enableIPv6 = prefs.enableIPv6
    /\ ~FileExists(files, PersonalPath(prefs, queue[1][2]))

(***************************************************************************)
(* bigLock.  Between two steps the lock is held by the settings thread     *)
(* when it is inside a queued save: the QMutexLocker of saveGlobal and of  *)
(* savePersonal(name, key) lives to the end of the function, past the      *)
(* writes.  The other handlers take and release it within their step.      *)
(***************************************************************************)
\* the threads that hold bigLock
bigLock == IF Busy(queue) THEN {settingsThread} ELSE {}

\* the files a handler in progress is about to clear and write
BeingWritten == IF Busy(queue) THEN {TargetPath(Head(queue))} ELSE {}

\* C29: in no state does a thread hold bigLock while a file is being written.
C29_NoLockAcrossIO ==
    bigLock = {} \/ BeingWritten = {}

\* the fields and collections of the store
StoreFields == <<prefs, widgetSettings, friendLst, friendRequests, circleLst, loaded>>

\* C30: every write of a field or collection is made by a thread that holds
\* bigLock: while the settings thread holds it, no step of another thread
\* changes a field, a collection or the loaded flag.
C30_AccessUnderLock ==
    [][(bigLock # {} /\ currentThread' \notin bigLock) => StoreFields' = StoreFields]_vars

(***************************************************************************)
(* Start-up on a file system the store did not write: a settings file may  *)
(* lie next to the executable and in the platform's directory, each with   *)
(* its own portability flag, and the profile's file may hold any integer   *)
(* as the proxy type.                                                      *)
(***************************************************************************)
\* a global file that records the portability flag
StoredGlobal(flag) ==
    GlobalContent([DefaultPrefs EXCEPT !.makeToxPortable = flag], EmptyMap)

\* a personal file that records the proxy type
StoredPersonal(proxyType) ==
    PersonalContent([DefaultPrefs EXCEPT !.proxyType = proxyType], EmptyMap, <<>>, <<>>)

\* the integers a personal file may hold as the proxy type
StoredProxyTypes == {-1, 0, 1, 2, 3}

\* the file systems the store is started on
BootFiles ==
    LET globals(dir) == {EmptyMap}
                        \cup {[q \in {<<dir, globalSettingsFile>>} |-> StoredGlobal(flag)] :
                                 flag \in BOOLEAN}
        personals == {EmptyMap}
                     \cup {[q \in {<<ConfigDir, "alice", ".ini">>} |-> StoredPersonal(v)] :
                              v \in StoredProxyTypes}
    IN {[q \in DOMAIN a \cup DOMAIN b \cup DOMAIN c |->
            IF q \in DOMAIN a THEN a[q] ELSE IF q \in DOMAIN b THEN b[q] ELSE c[q]] :
          a \in globals(AppDir), b \in globals(ConfigDir), c \in personals}

\* the store constructed on one of these file systems
InitBoot ==
    /\ files \in BootFiles
    /\ prefs = Constructed(files).p
    /\ widgetSettings = Constructed(files).ws
    /\ loaded = Constructed(files).loaded
    /\ friendLst = EmptyMap
    /\ friendRequests = <<>>
    /\ circleLst = <<>>
    /\ autorun = FALSE
    /\ platformExt = FALSE
    /\ profile \in Profiles
    /\ queue = <<>>
    /\ emitted = <<>>
    /\ ret = Ret("Settings", Void)
    /\ currentThread = "main"
    /\ settings = 1
    /\ pc = [c \in Callers |-> "idle"]
    /\ constructed = 1
    /\ workers = 1

NextBoot ==
    \/ \E t \in Threads : LoadGlobal(t)
    \/ \E t \in Threads : LoadPersonal(t, "alice")
    \/ ResetToDefault(settingsThread)
    \/ \E t \in Threads : SaveGlobal(t) /\ Len(queue') <= MaxQueue
    \/ BeginQueued
    \/ FinishQueued
    \/ \E t \in Threads, v \in BoolVals :
          SetMakeToxPortableOn(t, v) /\ Len(queue') <= MaxQueue
    \/ \E v \in BoolVals : SetPlainOn(settingsThread, Row("setEnableIPv6"), v)

SpecBoot == InitBoot /\ [][NextBoot]_vars

\* the directory loadGlobal reads the global file from: the probe decides
LoadedFrom(fs) == IF isToxPortable(fs) THEN AppDir ELSE ConfigDir

\* C31: a loadGlobal that loads reads the file next to the executable exactly
\* when that file exists and has its portability flag set, and else the file
\* of the platform's directory (the fields it loads are that file's, or the
\* defaults without it); and after the load the portable flag in memory
\* names the directory the file was read from.
C31_PortableFlagAgrees ==
    LET r == loadGlobal(files, FALSE, prefs, widgetSettings)
        from == LoadedFrom(files)
        g == Value(ReadFile(files, <<from, globalSettingsFile>>), "prefs", NoContent)
    IN /\ from = AppDir
          <=> /\ FileExists(files, <<AppDir, globalSettingsFile>>)
              /\ files[<<AppDir, globalSettingsFile>>].prefs.makeToxPortable
       /\ r.p.enableIPv6 = Value(g, "enableIPv6", DefaultPrefs.enableIPv6)
       /\ getSettingsDirPath(r.p) = from

\* the proxy type the profile's own file records, if the file has one
StoredProxyType(fs, p, profileName) ==
    Value(Value(ProfileFile(fs, p, profileName), "prefs", NoContent), "proxyType", 0)

\* C32: whatever integer the personal file holds as the proxy type, after
\* loadPersonal the proxy type is one of none, SOCKS5 and HTTP: the stored
\* value if that is one of the three, and none otherwise; and
\* fixInvalidProxyType returns each of the three as it is.
C32_ProxyTypeRepaired ==
    /\ \A name \in PersonalNames :
          LET r == loadPersonal(files, prefs, name)
              stored == StoredProxyType(files, prefs, name)
          IN /\ r.p.proxyType \in ProxyTypes
             /\ FileExists(files, PersonalPath(prefs, name))
                => r.p.proxyType = IF stored \in ProxyTypes THEN stored ELSE 0
    /\ \A v \in ProxyTypes : fixInvalidProxyType(v) = v
    /\ \A v \in StoredProxyTypes : fixInvalidProxyType(v) \in ProxyTypes
    /\ prefs.proxyType \in ProxyTypes

\* loadPersonal has read a file that records the proxy type 3 and the store
\* holds none
C32_Witness ==
    /\ ret = Ret("loadPersonal", Void)
    /\ FileExists(files, PersonalPath(prefs, "alice"))
    /\ StoredProxyType(files, prefs, "alice") = 3
    /\ prefs.proxyType = 0

(***************************************************************************)
(* The last activity of a friend and the logging preference.               *)
(***************************************************************************)
\* C33: no friend entry comes to hold an activity timestamp while logging is
\* disabled: in a step taken with logging disabled before and after it, an
\* entry that holds a timestamp afterwards held the same one before.
C33_ActivityOnlyWhenLogging ==
    [][(~prefs.enableLogging /\ ~prefs'.enableLogging)
       => \A k \in DOMAIN friendLst' :
             friendLst'[k].activity # NullTime
             => /\ k \in DOMAIN friendLst
                /\ friendLst[k].activity = friendLst'[k].activity]_vars

(***************************************************************************)
(* A queued save of a profile and a switch to another profile.             *)
(***************************************************************************)
\* the collections of a personal file
Collections(c) == <<c.friends, c.requests, c.circles>>

\* C34: when updateProfileData(Q) loads another profile while a
\* savePersonal(P) waits in the queue of a loaded store, the save still
\* writes P's collections: once the queue is drained, P's file holds the
\* collections the store held before the switch.
C34_SaveWritesOwnProfile ==
    [][\A t \in Threads, Q \in PersonalNames :
          UpdateProfileData(t, Q)
          => \A i \in 1..Len(queue) :
                (loaded /\ queue[i][1] = "savePersonal" /\ queue[i][2] # Q)
                => Collections(DrainedNext[PersonalPath(prefs', queue[i][2])])
                     = Collections(PersonalContent(prefs, friendLst, friendRequests,
                                                   circleLst))]_vars

(***************************************************************************)
(* sync() step by step.  A caller is a thread other than the settings      *)
(* thread.  pc[c] is "handler" while c runs a change-notification handler  *)
(* inside a setter (the setter's locker is in scope, so c holds bigLock),  *)
(* "sync" while c waits in the blocking queued call of sync(), and         *)
(* "handlerSync" while it waits there from inside a handler.  The settings *)
(* thread's event loop runs the queued calls, oldest first; a queued call  *)
(* takes bigLock first thing, so it starts only when no caller holds it.   *)
(***************************************************************************)
MaxSyncPosted == 3

\* the callers that hold bigLock
HeldByCaller == {c \in Callers : pc[c] \in {"handler", "handlerSync"}}
\* the callers that wait inside sync()
InSync == {c \in Callers : pc[c] \in {"sync", "handlerSync"}}

CallerEnv == UNCHANGED <<autorun, platformExt, profile, settings, constructed, workers>>

\* setEnableIPv6 on caller c: takes bigLock, assigns and emits on a change;
\* the handler connected to the signal then runs on c inside the setter
SetEnableIPv6By(c, v) ==
    /\ pc[c] = "idle"
    /\ ~Busy(queue)
    /\ HeldByCaller = {}
    /\ ret' = Ret("setEnableIPv6", Void)
    /\ currentThread' = c
    /\ LET r == setPlain(prefs, Row("setEnableIPv6"), v)
       IN /\ prefs' = r.p
          /\ emitted' = r.e
          /\ pc' = IF r.e # <<>> THEN [pc EXCEPT ![c] = "handler"] ELSE pc
    /\ UNCHANGED <<widgetSettings, friendLst, friendRequests, circleLst, loaded, queue,
                   files>>
    /\ CallerEnv

\* the handler returns, and with it the setter: bigLock is released
HandlerReturns(c) ==
    /\ pc[c] = "handler"
    /\ ret' = Ret("handler", Void)
    /\ currentThread' = c
    /\ pc' = [pc EXCEPT ![c] = "idle"]
    /\ emitted' = <<>>
    /\ UNCHANGED <<prefs, widgetSettings, friendLst, friendRequests, circleLst, loaded,
                   queue, files>>
    /\ CallerEnv

\* saveGlobal on caller c, outside a handler: the call is queued
SaveGlobalBy(c) ==
    /\ pc[c] = "idle"
    /\ ret' = Ret("saveGlobal", Void)
    /\ currentThread' = c
    /\ queue' = saveGlobal(c, queue, files, loaded, prefs, widgetSettings).queue
    /\ emitted' = <<>>
    /\ UNCHANGED <<prefs, widgetSettings, friendLst, friendRequests, circleLst, loaded,
                   files, pc>>
    /\ CallerEnv

\* sync() on caller c, from its own code or from a handler: the call is
\* queued and c waits for it
SyncCall(c) ==
    /\ pc[c] \in {"idle", "handler"}
    /\ ret' = Ret("invokeMethod", "sync")
    /\ currentThread' = c
    /\ queue' = Append(queue, <<"sync", c>>)
    /\ pc' = [pc EXCEPT ![c] = IF pc[c] = "idle" THEN "sync" ELSE "handlerSync"]
    /\ emitted' = <<>>
    /\ UNCHANGED <<prefs, widgetSettings, friendLst, friendRequests, circleLst, loaded,
                   files>>
    /\ CallerEnv

\* the event loop takes a queued save
WorkerBegin ==
    /\ queue # <<>>
    /\ Head(queue)[1] # "sync"
    /\ HeldByCaller = {}
    /\ BeginQueued

\* the event loop takes a queued sync(): it takes bigLock, processEvents()
\* runs every call queued behind it, and the waiting callers return
WorkerSync ==
    /\ queue # <<>>
    /\ Head(queue)[1] = "sync"
    /\ HeldByCaller = {}
    /\ ret' = Ret("sync", Void)
    /\ currentThread' = settingsThread
    /\ files' = Drain(SelectSeq(queue, LAMBDA m : m[1] # "sync"), files, loaded, prefs,
                      widgetSettings, friendLst, friendRequests, circleLst)
    /\ queue' = <<>>
    /\ pc' = [c \in Callers |-> IF pc[c] = "sync" THEN "idle" ELSE pc[c]]
    /\ emitted' = <<>>
    /\ UNCHANGED <<prefs, widgetSettings, friendLst, friendRequests, circleLst, loaded>>
    /\ CallerEnv

NextSync ==
    \/ \E c \in Callers, v \in BoolVals : SetEnableIPv6By(c, v)
    \/ \E c \in Callers : HandlerReturns(c)
    \/ \E c \in Callers : SaveGlobalBy(c) /\ Len(queue') <= MaxSyncPosted
    \/ \E c \in Callers : SyncCall(c) /\ Len(queue') <= MaxSyncPosted
    \/ WorkerBegin
    \/ FinishQueued
    \/ WorkerSync

SpecSyncSteps == InitQueue /\ [][NextSync]_vars

\* The settings thread runs its event loop for as long as the store lives:
\* a save it has begun is finished, and a queued call that waits for
\* bigLock gets it when the callers keep releasing it (no caller starves the
\* settings thread).  A handler that does not call sync() returns.
SpecSync ==
    /\ SpecSyncSteps
    /\ SF_vars(WorkerBegin)
    /\ WF_vars(FinishQueued)
    /\ SF_vars(WorkerSync)
    /\ \A c \in Callers : WF_vars(HandlerReturns(c))

\* C35: a caller that waits inside sync() eventually returns from it,
\* whether it called sync() from its own code or from a change-notification
\* handler of a setter.
C35_SyncReturns ==
    \A c \in Callers : (c \in InSync) ~> (c \notin InSync)

(***************************************************************************)
(* The global settings file after a change of location.                    *)
(***************************************************************************)
\* C36: after setMakeToxPortable(v) with v different from the stored flag,
\* loaded or not, a global settings file exists at the new settings location
\* once the pending calls have run.
C36_FileAtNewLocation ==
    [][\A t \in Threads, v \in BoolVals :
          (SetMakeToxPortableOn(t, v) /\ v # prefs.makeToxPortable)
          => GlobalPath(prefs') \in DOMAIN DrainedNext]_vars

\* the same for a loaded store
C36_FileAtNewLocationLoaded ==
    [][\A t \in Threads, v \in BoolVals :
          (SetMakeToxPortableOn(t, v) /\ v # prefs.makeToxPortable /\ loaded)
          => GlobalPath(prefs') \in DOMAIN DrainedNext]_vars

(***************************************************************************)
(* deleteToxme.                                                            *)
(***************************************************************************)
\* C37: after deleteToxme() the four toxme fields are reset, whatever they
\* held before: the info, the bio and the password are empty and the
\* privacy flag is false.
C37_DeleteToxmeResets ==
    [][DeleteToxme
       => /\ getToxmeInfo(prefs') = <<>>
          /\ getPlain(prefs', Row("setToxmeBio")) = ""
          /\ getPlain(prefs', Row("setToxmePriv")) = FALSE
          /\ getToxmePass(prefs') = ""]_vars

\* the three fields other than the info
C37_DeleteToxmeResetsOthers ==
    [][DeleteToxme
       => /\ getPlain(prefs', Row("setToxmeBio")) = ""
          /\ getPlain(prefs', Row("setToxmePriv")) = FALSE
          /\ getToxmePass(prefs') = ""]_vars

(***************************************************************************)
(* The current profile and its id under setCurrentProfile,                 *)
(* updateProfileData and loadGlobal, with the global file moving between   *)
(* the two settings locations.                                             *)
(***************************************************************************)
NextProfileId ==
    \/ \E name \in ProfileNames : SetCurrentProfile(name)
    \/ \E prof \in {NoProfile} \cup PersonalNames : UpdateProfileData(settingsThread, prof)
    \/ LoadGlobal(settingsThread)
    \/ ResetToDefault(settingsThread)
    \/ \E v \in BoolVals : SetMakeToxPortableOn(settingsThread, v)
    \/ \E v \in BoolVals : SetPlainOn(settingsThread, Row("setEnableIPv6"), v)
    \/ \E v \in BoolVals : SetPlainOn(settingsThread, Row("setEnableLogging"), v)

SpecProfileId == InitProfile /\ [][NextProfileId]_vars

\* the id-changed notification is among the signals of the last step
IdChangedEmitted == \E i \in 1..Len(emitted) : emitted[i][1] = "currentProfileIdChanged"

\* the id is the one made from the name
IdMatchesName == getCurrentProfileId(prefs) = makeProfileId(getCurrentProfile(prefs))

C38_IdFollowsNameBySetter ==
    /\ []IdMatchesName
    /\ [][ret'[1] # "loadGlobal"
          => ((getCurrentProfile(prefs') # getCurrentProfile(prefs))
              <=> IdChangedEmitted')]_vars

(***************************************************************************)
(* The per-friend getters as calls, next to the calls that store entries.  *)
(***************************************************************************)
\* the getters that take the friend's public key
FriendGetters ==
    {"getFriendAlias", "getFriendCircleID", "getFriendActivity", "getContactNote",
     "getAutoAcceptDir", "getAutoAcceptCall", "getAutoGroupInvite"}

FriendGetterValue(g, fl, id) ==
    CASE g = "getFriendAlias" -> getFriendAlias(fl, id)
      [] g = "getFriendCircleID" -> getFriendCircleID(fl, id)
      [] g = "getFriendActivity" -> getFriendActivity(fl, id)
      [] g = "getContactNote" -> getContactNote(fl, id)
      [] g = "getAutoAcceptDir" -> getAutoAcceptDir(fl, id)
      [] g = "getAutoAcceptCall" -> getAutoAcceptCall(fl, id)
      [] OTHER -> getAutoGroupInvite(fl, id)

\* a getter of FriendGetters called with the key id
GetFriend(g, id) ==
    /\ ret' = Ret(g, FriendGetterValue(g, friendLst, id))
    /\ friendLst' = findFriend(friendLst, id)
    /\ emitted' = <<>>
    /\ FriendFrame

\* Settings::getFriendAddress called with a Tox ID
GetFriendAddress(publicKey) ==
    /\ ret' = Ret("getFriendAddress", getFriendAddress(friendLst, publicKey))
    /\ friendLst' = findFriend(friendLst, ToxIdPublicKey(publicKey))
    /\ emitted' = <<>>
    /\ FriendFrame

NextFriendReads ==
    \/ \E g \in FriendGetters, id \in Keys : GetFriend(g, id)
    \/ \E a \in Addresses : GetFriendAddress(a)
    \/ \E a \in Addresses : UpdateFriendAddress(a) /\ FriendsBounded(friendLst')
    \/ \E id \in Keys, alias \in StrVals :
          SetFriendAlias(id, alias) /\ FriendsBounded(friendLst')
    \/ \E id \in Keys, circleID \in -1..1 :
          SetFriendCircleID(id, circleID) /\ FriendsBounded(friendLst')
    \/ \E id \in Keys : RemoveFriendSettings(id)
    \/ SavePersonalAs(settingsThread, "alice")
    \/ LoadPersonal(settingsThread, "alice")

SpecFriendReads == InitProfile /\ [][NextFriendReads]_vars

\* the calls that may add an entry to the friend collection
FriendWriters ==
    {"setFriendAlias", "setFriendCircleID", "setFriendActivity", "setContactNote",
     "setAutoAcceptDir", "setAutoAcceptCall", "setAutoGroupInvite",
     "updateFriendAddress", "loadPersonal"}

\* C39: a per-friend getter leaves the friend collection as it was, also
\* when the key has no entry; a step that adds a key to the collection is a
\* per-friend setter, updateFriendAddress or loadPersonal.
C39_GettersArePure ==
    [][/\ ret'[1] \in FriendGetters \cup {"getFriendAddress"} => friendLst' = friendLst
       /\ ~(DOMAIN friendLst' \subseteq DOMAIN friendLst) => ret'[1] \in FriendWriters]_vars

\* getFriendCircleID on the key without an entry returned -1, next to a
\* stored entry whose circle is 0, and the key still has no entry
C39_Witness ==
    /\ ret = Ret("getFriendCircleID", -1)
    /\ DOMAIN friendLst = {"pk2"}
    /\ friendLst["pk2"].circleID = 0

====
